---- MODULE Spec2Model ----
(***************************************************************************)
(* Model of the otio-xges converter: the XGES Encoder (src/encoder.go) and *)
(* the XGES Decoder with its document types (src/unnamed/part_001).        *)
(*                                                                         *)
(* Strings are sequences of tokens.  A token is one character of user      *)
(* text (backslash, double quote, space, comma, a letter, a digit) or one  *)
(* literal piece of text that the code emits or matches as a unit, such as *)
(* "name=(string)".  RationalTime values are kept as exact seconds sn/sd   *)
(* together with their rate: the arithmetic of the opentime library is     *)
(* taken as exact.  The two float64 conversions of the converter itself,   *)
(* nanoseconds to seconds in Decoder.toRationalTime and seconds back to    *)
(* nanoseconds in Encoder.toNanoseconds, round as float64 does.            *)
(***************************************************************************)
EXTENDS Integers, Sequences, FiniteSets, TLC

VARIABLES
    pc,         \* position of the driving program
    str,        \* input string of the escaping functions
    escaped,    \* result of escapeGstString(str)
    unescaped,  \* result of unescapeGstString(escaped)
    timeline,   \* the OTIO timeline handed to Encode
    encoder,    \* Encoder fields (rate)
    buf,        \* the XGES document the Encoder wrote / the Decoder reads
    decoder,    \* Decoder fields (rate)
    decoded,    \* the OTIO timeline returned by Decode
    encoder2,   \* a second Encoder, used to encode the decoded timeline
    buf2,       \* the XGES document written by the second Encoder
    docDesc,    \* how a hand-written input document was built
    writer,     \* the io.Writer of the Encoder: which Write call fails, if any
    stream,     \* what reached the stream the Encoder writes and the Decoder reads
    ret         \* what the last Encode or Decode call returned

vars == <<pc, str, escaped, unescaped, timeline, encoder, buf, decoder,
          decoded, encoder2, buf2, docDesc, writer, stream, ret>>

None == "none"

-----------------------------------------------------------------------------
(* Bounds of the model.                                                    *)

MaxStrLen == 3      \* longest input of the escaping functions
MaxNameLen == 2     \* longest timeline / clip name of the name round trip
MaxItems == 5       \* size of a source timeline: its tracks plus their children
MaxDocTracks == 2   \* most Track elements of a hand-written document
MaxTransitions == 2 \* most children of the track of a transition timeline
MaxDocTransitions == 2 \* most Transition elements of a hand-written layer
MaxLayerClips == 2  \* most clip elements of the layer of a cursor document
MaxRefClips == 2    \* most clips of the track of a media-reference timeline
MaxPropClips == 2   \* most clip elements of the layer of a children-properties document
MaxErrItems == 3    \* most tracks and children together of a timeline encoded on a failing writer
MaxRateItems == 4   \* most tracks and children together of a timeline of mixed rates
MaxTrackElems == 2  \* most Track elements of a document of several layers
MaxHalfClips == 2   \* most transition elements of the layer of a document of transitions of many durations
MaxTextLen == 3     \* longest text of a title clip
MaxValueLen == 4    \* longest hand-written text after key=(string) in a structure string
MaxReuseItems == 3  \* most tracks and children together of a timeline of SpecReuse
MaxEncodeCalls == 3 \* most Encode calls on one Encoder
MaxTypeClips == 2   \* most clip elements of the layer of a document of SpecTypes
MaxStartClips == 2  \* most clip elements of the layer of a document of SpecStarts
MaxLayerItems == 4  \* most layers and clip elements together of such a document

-----------------------------------------------------------------------------
(* Characters and generic string helpers.                                  *)

BS == "\\"
DQ == "\""
SP == " "
CM == ","
SC == ";"

\* the alphabet of user text: backslash, double quote, space, comma, a letter
NameChars == {BS, DQ, SP, CM, "a"}

RECURSIVE StringsUpTo(_, _)
StringsUpTo(chars, n) ==
    IF n = 0 THEN {<<>>}
    ELSE LET shorter == StringsUpTo(chars, n - 1)
         IN  shorter \cup {Append(s, c) : s \in shorter, c \in chars}

\* strings.ReplaceAll for a non-empty old: left to right, non-overlapping
RECURSIVE ReplaceAll(_, _, _)
ReplaceAll(s, old, new) ==
    IF Len(s) < Len(old) THEN s
    ELSE IF SubSeq(s, 1, Len(old)) = old
         THEN new \o ReplaceAll(SubSeq(s, Len(old) + 1, Len(s)), old, new)
         ELSE <<Head(s)>> \o ReplaceAll(Tail(s), old, new)

-----------------------------------------------------------------------------
(* Encoder.escapeGstString and Decoder.unescapeGstString.                  *)

\* a plausible slip: the backslash is escaped last, after the other three
escapeGstStringBackslashLast(s) ==
    LET s1 == ReplaceAll(s, <<DQ>>, <<BS, DQ>>)
        s2 == ReplaceAll(s1, <<SP>>, <<BS, SP>>)
        s3 == ReplaceAll(s2, <<CM>>, <<BS, CM>>)
    IN  ReplaceAll(s3, <<BS>>, <<BS, BS>>)

escapeGstString(s) ==
    LET s1 == ReplaceAll(s, <<BS>>, <<BS, BS>>)
        s2 == ReplaceAll(s1, <<DQ>>, <<BS, DQ>>)
        s3 == ReplaceAll(s2, <<SP>>, <<BS, SP>>)
    IN  ReplaceAll(s3, <<CM>>, <<BS, CM>>)

unescapeGstString(s) ==
    LET s1 == ReplaceAll(s, <<BS, SP>>, <<SP>>)
        s2 == ReplaceAll(s1, <<BS, CM>>, <<CM>>)
    IN  ReplaceAll(s2, <<BS, DQ>>, <<DQ>>)

-----------------------------------------------------------------------------
(* Program constants (src/unnamed/part_001, the document types).           *)

ClipTypeURI == <<"GESUriClip">>
ClipTypeTransition == <<"GESTransitionClip">>
ClipTypeTest == <<"GESTestClip">>
ClipTypeTitle == <<"GESTitleClip">>

TrackTypeAudio == 2
TrackTypeVideo == 4

GSTSecond == 1000000000

\* NewEncoder / NewDecoder: rate: 25.0.  A rate is the exact fraction num/den.
DefaultRate == [num |-> 25, den |-> 1]

-----------------------------------------------------------------------------
(* opentime.RationalTime with exact arithmetic: sn/sd seconds at a rate.   *)

\* opentime.NewRationalTime(value, rate) for an integer rate
NewRationalTime(value, rate) ==
    [sn |-> value, sd |-> rate, rate |-> [num |-> rate, den |-> 1]]

\* floor(a * GSTSecond / d) for a denominator d below 60000, with
\* GSTSecond taken in two factors so that no product leaves 31 bits
MulDivSecond(a, d) ==
    LET p1 == (a % d) * 31250
    IN  (a \div d) * GSTSecond + (p1 \div d) * 32000 + ((p1 % d) * 32000) \div d

\* floor(log2(n)) for n >= 1
RECURSIVE Log2(_)
Log2(n) == IF n < 2 THEN 0 ELSE 1 + Log2(n \div 2)

RECURSIVE Pow2(_)
Pow2(n) == IF n = 0 THEN 1 ELSE 2 * Pow2(n - 1)

\* the least j with n * 2^j >= GSTSecond, for 1 <= n < GSTSecond
RECURSIVE ShiftToSecond(_)
ShiftToSecond(n) == IF n >= GSTSecond THEN 0 ELSE 1 + ShiftToSecond(2 * n)

\* x * 2^n modulo GSTSecond
RECURSIVE DoubleMod(_, _)
DoubleMod(x, n) ==
    IF n = 0 \/ x = 0 THEN x ELSE DoubleMod((2 * x) % GSTSecond, n - 1)

\* float64(ns) / float64(GSTSecond) * float64(GSTSecond) is below ns: the
\* quotient is rounded to 53 bits, m = round(ns * 2^k / GSTSecond) with
\* 2^52 <= m < 2^53; the product m * GSTSecond / 2^k, rounded to 53 bits
\* again, is below ns exactly when the division was rounded down by more
\* than half a unit in the last place of ns, that is when the remainder of
\* ns * 2^k by GSTSecond is at most GSTSecond / 2 and above 2^(k + e - 53),
\* e the binary exponent of ns (half of that when ns is a power of two)
SecondsFallShort(ns) ==
    /\ ns > 0
    /\ LET j == IF ns >= 2 * GSTSecond THEN 0 - 1 ELSE ShiftToSecond(ns)
           e == Log2(ns)
           x == DoubleMod(ns % GSTSecond, j + 52)
           t == Pow2(e + j - 1) \div (IF ns = Pow2(e) THEN 2 ELSE 1)
       IN  x <= GSTSecond \div 2 /\ x > t

\* Encoder.toNanoseconds: uint64(t.ToSeconds() * GSTSecond), truncating.  A
\* time the Decoder made from q-th parts of a whole number of nanoseconds
\* has the float64 seconds of Decoder.toRationalTime behind it and comes
\* back one nanosecond short when the product falls short; a time in frames
\* gives floor(sn * GSTSecond / sd) (at the rates here the product is a
\* whole number with an exact float64 quotient or is not near one)
toNanoseconds(t) ==
    IF t.sd % GSTSecond = 0
    THEN LET q == t.sd \div GSTSecond
         IN  IF t.sn % q = 0 /\ SecondsFallShort(t.sn \div q)
             THEN t.sn \div q - 1
             ELSE t.sn \div q
    ELSE MulDivSecond(t.sn, t.sd)

\* Decoder.toRationalTime: opentime.FromSeconds(ns / GSTSecond, d.rate)
toRationalTime(ns, rate) == [sn |-> ns, sd |-> GSTSecond, rate |-> rate]

\* RationalTime.Add, for two times given over the same denominator
AddTime(t1, t2) == [sn |-> t1.sn + t2.sn, sd |-> t1.sd, rate |-> t1.rate]

\* Composable.Duration() of a child: a Clip's source range duration, a Gap's
\* duration
ChildDuration(child) ==
    IF child.type = "Clip" THEN child.sourceRange.duration ELSE child.duration

\* decimal digits of a natural number, as fmt's %d prints them
RECURSIVE Digits(_)
Digits(n) ==
    IF n < 10 THEN <<ToString(n)>>
    ELSE Digits(n \div 10) \o Digits(n % 10)

\* Timeline.VideoTracks() / Timeline.AudioTracks()
VideoTracks(tl) == SelectSeq(tl.tracks, LAMBDA t : t.kind = "Video")
AudioTracks(tl) == SelectSeq(tl.tracks, LAMBDA t : t.kind = "Audio")

-----------------------------------------------------------------------------
(* The Encoder (src/encoder.go).                                           *)
(*                                                                         *)
(* A timeline is [name, tracks]; a track is [kind, children]; a child is   *)
(*   [type |-> "Clip", name, ref, sourceRange |-> [start, duration],       *)
(*    metadata]                                                            *)
(*   [type |-> "Gap", duration]                                            *)
(*   [type |-> "Transition", name, transitionType, inOffset, outOffset,    *)
(*    metadata]                                                            *)
(* ref is [variant |-> "ExternalReference", url], [variant |->             *)
(* "GeneratorReference", kind], [variant |-> "MissingReference"] or        *)
(* [variant |-> "nil"].  metadata is the map stored under "xges": a        *)
(* function from a subset of its keys to strings.                          *)

NoMetadata == [k \in {} |-> <<>>]

\* the int(e.rate) of the format strings
IntRate(rate) == rate.num \div rate.den

\* the two loops of Encoder.extractFrameRate over one list of tracks: the
\* rates of the clips whose duration has a positive rate, in scan order
RECURSIVE ClipRates(_)
ClipRates(tracks) ==
    IF tracks = <<>> THEN <<>>
    ELSE LET cs == SelectSeq(Head(tracks).children,
                     LAMBDA c : c.type = "Clip"
                                /\ "duration" \in DOMAIN c.sourceRange
                                /\ c.sourceRange.duration.rate.num > 0)
         IN  [i \in 1..Len(cs) |-> cs[i].sourceRange.duration.rate]
             \o ClipRates(Tail(tracks))

\* a plausible slip: the audio tracks are tried before the video tracks
EncoderExtractFrameRateAudioFirst(tl, rate) ==
    LET v == ClipRates(VideoTracks(tl))
        a == ClipRates(AudioTracks(tl))
    IN  IF a # <<>> THEN a[1] ELSE IF v # <<>> THEN v[1] ELSE rate

\* Encoder.extractFrameRate: the new value of e.rate
EncoderExtractFrameRate(tl, rate) ==
    LET v == ClipRates(VideoTracks(tl))
        a == ClipRates(AudioTracks(tl))
    IN  IF v # <<>> THEN v[1] ELSE IF a # <<>> THEN a[1] ELSE rate

buildProjectMetadatas(tl) ==
    IF tl.name = <<>> THEN <<"metadatas", SC>>
    ELSE <<"metadatas", CM, SP, "name=(string)", DQ>>
         \o escapeGstString(tl.name) \o <<DQ, SC>>

buildTimelineProperties == <<"properties", CM, SP, "auto-transition=(boolean)true", SC>>

\* a plausible slip: the default rate is written, not the inferred one
buildTimelineMetadatasDefault(rate) ==
    <<"metadatas", CM, SP, "framerate", "=", "(fraction", ")">>
    \o Digits(IntRate(DefaultRate)) \o <<"/", "1", SC>>

buildTimelineMetadatas(rate) ==
    <<"metadatas", CM, SP, "framerate", "=", "(fraction", ")">>
    \o Digits(IntRate(rate)) \o <<"/", "1", SC>>

buildVideoTrackProperties(rate) ==
    <<"properties", CM, SP, "restriction-caps=(string)", DQ, "video/x-raw",
      BS, CM, BS, SP, "width\\=\\(int\\)1920",
      BS, CM, BS, SP, "height\\=\\(int\\)1080",
      BS, CM, BS, SP, "framerate", BS, "=", BS, "(fraction", BS, ")">>
    \o Digits(IntRate(rate))
    \o <<"/", "1", DQ, CM, SP, "mixing=(boolean)true", SC>>

buildAudioTrackProperties ==
    <<"properties", CM, SP, "restriction-caps=(string)", DQ, "audio/x-raw",
      BS, CM, BS, SP, "rate\\=\\(int\\)48000",
      BS, CM, BS, SP, "channels\\=\\(int\\)2", DQ, CM, SP,
      "mixing=(boolean)true", SC>>

buildClipProperties(name) ==
    <<"properties", CM, SP, "name=(string)", DQ>> \o escapeGstString(name)
    \o <<DQ, CM, SP, "mute=(boolean)false", CM, SP, "is-image=(boolean)false", SC>>

\* Encoder.extractChildrenProperties (also the inlined copy in
\* convertTransition)
extractChildrenProperties(item) ==
    IF "children-properties" \in DOMAIN item.metadata
    THEN item.metadata["children-properties"] ELSE <<>>

\* a plausible slip: the string is rebuilt from the text when there is one
extractTitlePropertiesRebuilt(clip) ==
    IF "text" \in DOMAIN clip.metadata
    THEN <<"properties", CM, SP, "text=(string)", DQ>>
         \o escapeGstString(clip.metadata["text"]) \o <<DQ, SC>>
    ELSE IF "children-properties" \in DOMAIN clip.metadata
         THEN clip.metadata["children-properties"]
         ELSE <<>>

\* Encoder.extractTitleProperties
extractTitleProperties(clip) ==
    IF "children-properties" \in DOMAIN clip.metadata
    THEN clip.metadata["children-properties"]
    ELSE IF "text" \in DOMAIN clip.metadata
         THEN <<"properties", CM, SP, "text=(string)", DQ>>
              \o escapeGstString(clip.metadata["text"]) \o <<DQ, SC>>
         ELSE <<>>

\* a plausible slip: every unlisted type falls back to crossfade
reverseMapTransitionTypeFallback(transitionType) ==
    CASE transitionType = <<"SMPTE_Wipe">> -> <<"wipe">>
      [] transitionType = <<"SMPTE_ClockWipe">> -> <<"clock-wipe">>
      [] transitionType = <<"SMPTE_BarWipe">> -> <<"barwipe">>
      [] transitionType = <<"SMPTE_BoxWipe">> -> <<"box-wipe">>
      [] OTHER -> <<"crossfade">>

\* a plausible slip: two wipe tags swapped
reverseMapTransitionTypeSwapped(transitionType) ==
    CASE transitionType = <<"SMPTE_Dissolve">> -> <<"crossfade">>
      [] transitionType = <<"SMPTE_Wipe">> -> <<"wipe">>
      [] transitionType = <<"SMPTE_ClockWipe">> -> <<"clock-wipe">>
      [] transitionType = <<"SMPTE_BarWipe">> -> <<"box-wipe">>
      [] transitionType = <<"SMPTE_BoxWipe">> -> <<"barwipe">>
      [] OTHER -> IF transitionType = <<>> \/ transitionType = <<"Custom_Transition">>
                  THEN <<"crossfade">> ELSE transitionType

reverseMapTransitionType(transitionType) ==
    CASE transitionType = <<"SMPTE_Dissolve">> -> <<"crossfade">>
      [] transitionType = <<"SMPTE_Wipe">> -> <<"wipe">>
      [] transitionType = <<"SMPTE_ClockWipe">> -> <<"clock-wipe">>
      [] transitionType = <<"SMPTE_BarWipe">> -> <<"barwipe">>
      [] transitionType = <<"SMPTE_BoxWipe">> -> <<"box-wipe">>
      [] OTHER -> IF transitionType = <<>> \/ transitionType = <<"Custom_Transition">>
                  THEN <<"crossfade">> ELSE transitionType

\* a plausible slip: an empty URL or generator kind is written as it is
EncoderConvertClipNoDefault(clip, startTime, priority, trackType, id) ==
    LET name == IF clip.name = <<>> THEN <<"clip">> \o Digits(id) ELSE clip.name
        ref  == clip.ref
        isTitle == ref.variant = "GeneratorReference" /\ ref.kind = <<"title">>
        assetID ==
            CASE ref.variant = "ExternalReference" -> ref.url
              [] ref.variant = "GeneratorReference" ->
                   IF isTitle THEN ClipTypeTitle ELSE ref.kind
              [] OTHER -> <<"file:///missing">>
        typeName ==
            CASE ref.variant = "ExternalReference" -> ClipTypeURI
              [] ref.variant = "GeneratorReference" ->
                   IF isTitle THEN ClipTypeTitle ELSE ClipTypeTest
              [] OTHER -> ClipTypeURI
        titleProps == IF isTitle THEN extractTitleProperties(clip) ELSE <<>>
        childrenProps == IF titleProps = <<>> THEN extractChildrenProperties(clip)
                         ELSE titleProps
    IN  [id |-> id, assetID |-> assetID, typeName |-> typeName,
         layerPriority |-> priority, trackTypes |-> trackType,
         start |-> startTime,
         duration |-> toNanoseconds(clip.sourceRange.duration),
         inpoint |-> toNanoseconds(clip.sourceRange.start),
         rate |-> 0,
         properties |-> buildClipProperties(name),
         childrenProperties |-> childrenProps]

\* Encoder.convertClip: the clip element of a Clip
EncoderConvertClip(clip, startTime, priority, trackType, id) ==
    LET name == IF clip.name = <<>> THEN <<"clip">> \o Digits(id) ELSE clip.name
        ref  == clip.ref
        isTitle == ref.variant = "GeneratorReference" /\ ref.kind = <<"title">>
        assetID ==
            CASE ref.variant = "ExternalReference" ->
                   IF ref.url = <<>> THEN <<"file:///missing">> ELSE ref.url
              [] ref.variant = "GeneratorReference" ->
                   IF isTitle THEN ClipTypeTitle
                   ELSE IF ref.kind = <<>> THEN <<"black">> ELSE ref.kind
              [] OTHER -> <<"file:///missing">>
        typeName ==
            CASE ref.variant = "ExternalReference" -> ClipTypeURI
              [] ref.variant = "GeneratorReference" ->
                   IF isTitle THEN ClipTypeTitle ELSE ClipTypeTest
              [] OTHER -> ClipTypeURI
        titleProps == IF isTitle THEN extractTitleProperties(clip) ELSE <<>>
        childrenProps == IF titleProps = <<>> THEN extractChildrenProperties(clip)
                         ELSE titleProps
    IN  [id |-> id, assetID |-> assetID, typeName |-> typeName,
         layerPriority |-> priority, trackTypes |-> trackType,
         start |-> startTime,
         duration |-> toNanoseconds(clip.sourceRange.duration),
         inpoint |-> toNanoseconds(clip.sourceRange.start),
         rate |-> 0,
         properties |-> buildClipProperties(name),
         childrenProperties |-> childrenProps]

\* a plausible slip: the element is placed over the end of the child before
\* it, its in-offset ahead of the cursor
EncoderConvertTransitionOverlapping(transition, startTime, priority, trackType, id) ==
    LET name == IF transition.name = <<>> THEN <<"transition">> \o Digits(id)
                ELSE transition.name
        in   == toNanoseconds(transition.inOffset)
    IN  [id |-> id,
         assetID |-> reverseMapTransitionType(transition.transitionType),
         typeName |-> ClipTypeTransition,
         layerPriority |-> priority, trackTypes |-> trackType,
         start |-> IF startTime >= in THEN startTime - in ELSE 0,
         duration |-> toNanoseconds(AddTime(transition.inOffset, transition.outOffset)),
         inpoint |-> 0,
         rate |-> 0,
         properties |-> buildClipProperties(name),
         childrenProperties |-> extractChildrenProperties(transition)]

\* Encoder.convertTransition: the clip element of a Transition
EncoderConvertTransition(transition, startTime, priority, trackType, id) ==
    LET name == IF transition.name = <<>> THEN <<"transition">> \o Digits(id)
                ELSE transition.name
    IN  [id |-> id,
         assetID |-> reverseMapTransitionType(transition.transitionType),
         typeName |-> ClipTypeTransition,
         layerPriority |-> priority, trackTypes |-> trackType,
         start |-> startTime,
         duration |-> toNanoseconds(AddTime(transition.inOffset, transition.outOffset)),
         inpoint |-> 0,
         rate |-> 0,
         properties |-> buildClipProperties(name),
         childrenProperties |-> extractChildrenProperties(transition)]

\* the loop of Encoder.convertTrackToLayer from child i on: the clip elements
\* emitted so far, the cursor and the next clip id
RECURSIVE LayerLoop(_, _, _, _, _, _, _)
LayerLoop(children, i, currentTime, clips, priority, trackType, clipID) ==
    IF i > Len(children) THEN [clips |-> clips, clipID |-> clipID]
    ELSE LET child == children[i]
         IN  CASE child.type = "Gap" ->
                    LayerLoop(children, i + 1,
                              currentTime + toNanoseconds(child.duration),
                              clips, priority, trackType, clipID)
               [] child.type = "Clip" ->
                    LayerLoop(children, i + 1,
                              currentTime + toNanoseconds(child.sourceRange.duration),
                              Append(clips, EncoderConvertClip(child, currentTime,
                                                priority, trackType, clipID)),
                              priority, trackType, clipID + 1)
               [] child.type = "Transition" ->
                    LayerLoop(children, i + 1,
                              currentTime + toNanoseconds(
                                  AddTime(child.inOffset, child.outOffset)),
                              Append(clips, EncoderConvertTransition(child, currentTime,
                                                priority, trackType, clipID)),
                              priority, trackType, clipID + 1)

\* a plausible slip: a Gap is skipped without advancing the cursor
convertTrackToLayerGapsIgnored(track, priority, clipID, trackType) ==
    LET r == LayerLoop(SelectSeq(track.children, LAMBDA c : c.type # "Gap"),
                       1, 0, <<>>, priority, trackType, clipID)
    IN  [layer |-> [priority |-> priority,
                    properties |-> <<"properties", CM, SP, "auto-transition=(boolean)true", SC>>,
                    metadatas |-> <<"metadatas", CM, SP, "volume=(float)1", SC>>,
                    clips |-> r.clips],
         clipID |-> r.clipID]

\* the nanoseconds of the transition elements before element k
RECURSIVE TransitionNsBefore(_, _)
TransitionNsBefore(clips, k) ==
    IF k <= 1 THEN 0
    ELSE TransitionNsBefore(clips, k - 1)
         + (IF clips[k - 1].typeName = ClipTypeTransition
            THEN clips[k - 1].duration ELSE 0)

\* a plausible slip: a Transition is emitted without advancing the cursor,
\* so the next element starts where the transition starts
convertTrackToLayerTransitionsInPlace(track, priority, clipID, trackType) ==
    LET r == LayerLoop(track.children, 1, 0, <<>>, priority, trackType, clipID)
    IN  [layer |-> [priority |-> priority,
                    properties |-> <<"properties", CM, SP, "auto-transition=(boolean)true", SC>>,
                    metadatas |-> <<"metadatas", CM, SP, "volume=(float)1", SC>>,
                    clips |-> [k \in 1..Len(r.clips) |->
                                 [r.clips[k] EXCEPT
                                    !.start = @ - TransitionNsBefore(r.clips, k)]]],
         clipID |-> r.clipID]

\* Encoder.convertTrackToLayer: the layer and the advanced clip id
convertTrackToLayer(track, priority, clipID, trackType) ==
    LET r == LayerLoop(track.children, 1, 0, <<>>, priority, trackType, clipID)
    IN  [layer |-> [priority |-> priority,
                    properties |-> <<"properties", CM, SP, "auto-transition=(boolean)true", SC>>,
                    metadatas |-> <<"metadatas", CM, SP, "volume=(float)1", SC>>,
                    clips |-> r.clips],
         clipID |-> r.clipID]

\* the two "Convert tracks to layers" loops of Encoder.Encode over one list
RECURSIVE LayersOf(_, _, _, _)
LayersOf(tracks, priority, clipID, trackType) ==
    IF tracks = <<>> THEN [layers |-> <<>>, clipID |-> clipID]
    ELSE LET r    == convertTrackToLayer(Head(tracks), priority, clipID, trackType)
             rest == LayersOf(Tail(tracks), priority + 1, r.clipID, trackType)
         IN  [layers |-> <<r.layer>> \o rest.layers, clipID |-> rest.clipID]

\* the Track elements Encode writes: one per kind that has a track
EncodeTracks(tl, rate) ==
    LET v == IF VideoTracks(tl) # <<>>
             THEN <<[caps |-> <<"video/x-raw(ANY)">>, trackType |-> TrackTypeVideo,
                     trackID |-> 0,
                     properties |-> buildVideoTrackProperties(rate),
                     metadatas |-> <<"metadatas", SC>>]>>
             ELSE <<>>
        a == IF AudioTracks(tl) # <<>>
             THEN <<[caps |-> <<"audio/x-raw(ANY)">>, trackType |-> TrackTypeAudio,
                     trackID |-> Len(v),
                     properties |-> buildAudioTrackProperties,
                     metadatas |-> <<"metadatas", SC>>]>>
             ELSE <<>>
    IN  v \o a

\* a plausible slip: the layer priority starts again at 0 for the audio
\* tracks
EncodeAudioPriorityRestarts(tl, rate0) ==
    LET rate == EncoderExtractFrameRate(tl, rate0)
        vl   == LayersOf(VideoTracks(tl), 0, 0, TrackTypeVideo)
        al   == LayersOf(AudioTracks(tl), 0, vl.clipID, TrackTypeAudio)
    IN  [rate |-> rate,
         ges  |-> [version |-> "0.3",
                   project |-> [properties |-> <<"properties", SC>>,
                                metadatas |-> buildProjectMetadatas(tl),
                                timeline |->
                                  [properties |-> buildTimelineProperties,
                                   metadatas |-> buildTimelineMetadatas(rate),
                                   tracks |-> EncodeTracks(tl, rate),
                                   layers |-> vl.layers \o al.layers]]]]

\* Encoder.Encode for an encoder whose rate is rate0: the rate it leaves in
\* e.rate and the GES document it writes (XML marshalling keeps the fields)
Encode(tl, rate0) ==
    LET rate == EncoderExtractFrameRate(tl, rate0)
        vl   == LayersOf(VideoTracks(tl), 0, 0, TrackTypeVideo)
        al   == LayersOf(AudioTracks(tl), Len(VideoTracks(tl)), vl.clipID,
                         TrackTypeAudio)
    IN  [rate |-> rate,
         ges  |-> [version |-> "0.3",
                   project |-> [properties |-> <<"properties", SC>>,
                                metadatas |-> buildProjectMetadatas(tl),
                                timeline |->
                                  [properties |-> buildTimelineProperties,
                                   metadatas |-> buildTimelineMetadatas(rate),
                                   tracks |-> EncodeTracks(tl, rate),
                                   layers |-> vl.layers \o al.layers]]]]

-----------------------------------------------------------------------------
(* The Decoder (src/unnamed/part_001).                                     *)

WhiteSpace == {SP}

DigitChars == {"0", "1", "2", "3", "4", "5", "6", "7", "8", "9"}

DigitValue(c) == CHOOSE n \in 0..9 : ToString(n) = c

\* the index of the first element of s at or after i that is in stops, or
\* Len(s) + 1
RECURSIVE ScanTo(_, _, _)
ScanTo(s, i, stops) ==
    IF i > Len(s) \/ s[i] \in stops THEN i ELSE ScanTo(s, i + 1, stops)

\* the index of the first element of s at or after i that is not in ok, or
\* Len(s) + 1
RECURSIVE ScanWhile(_, _, _)
ScanWhile(s, i, ok) ==
    IF i > Len(s) \/ s[i] \notin ok THEN i ELSE ScanWhile(s, i + 1, ok)

\* the leftmost match of  key(?:"([^"]+)"|(bare+))  in s at or after i, where
\* bare is any token outside bareStops: the two groups, or no
\* match
RECURSIVE FindValue(_, _, _, _)
FindValue(s, key, bareStops, i) ==
    IF i > Len(s) THEN [found |-> FALSE, quoted |-> <<>>, bare |-> <<>>]
    ELSE IF s[i] # key THEN FindValue(s, key, bareStops, i + 1)
    ELSE LET close   == ScanTo(s, i + 2, {DQ})
             bareEnd == ScanTo(s, i + 1, bareStops)
         IN  IF i + 1 <= Len(s) /\ s[i + 1] = DQ /\ close <= Len(s) /\ close > i + 2
             THEN [found |-> TRUE, quoted |-> SubSeq(s, i + 2, close - 1),
                   bare |-> <<>>]
             ELSE IF bareEnd > i + 1
                  THEN [found |-> TRUE, quoted |-> <<>>,
                        bare |-> SubSeq(s, i + 1, bareEnd - 1)]
                  ELSE FindValue(s, key, bareStops, i + 1)

\* Decoder.extractName: name=\(string\)(?:"([^"]+)"|(\S+))
extractName(metadatas) ==
    LET m == FindValue(metadatas, "name=(string)", WhiteSpace, 1)
    IN  IF ~m.found THEN <<>>
        ELSE IF m.quoted # <<>> THEN unescapeGstString(m.quoted)
        ELSE unescapeGstString(m.bare)

\* the value of the digits of s from i up to (not including) j
RECURSIVE DigitsValue(_, _, _)
DigitsValue(s, i, j) ==
    IF i >= j THEN 0
    ELSE 10 * DigitsValue(s, i, j - 1) + DigitValue(s[j - 1])

\* framerate\\?=\\?\(fraction\\?\)(\d+)/(\d+) matched at position i of caps
MatchFramerateAt(caps, i) ==
    LET At(k, c) == k <= Len(caps) /\ caps[k] = c
        Opt(k)   == IF At(k, BS) THEN k + 1 ELSE k
        eq       == Opt(i + 1)
        fr       == Opt(eq + 1)
        par      == Opt(fr + 1)
        n1       == par + 1
        n2       == ScanWhile(caps, n1, DigitChars)
        d1       == n2 + 1
        d2       == ScanWhile(caps, d1, DigitChars)
    IN  IF /\ At(i, "framerate") /\ At(eq, "=") /\ At(fr, "(fraction")
           /\ At(par, ")") /\ n2 > n1 /\ At(n2, "/") /\ d2 > d1
        THEN [found |-> TRUE, num |-> DigitsValue(caps, n1, n2),
              den |-> DigitsValue(caps, d1, d2)]
        ELSE [found |-> FALSE, num |-> 0, den |-> 0]

RECURSIVE FindFramerate(_, _)
FindFramerate(caps, i) ==
    IF i > Len(caps) THEN [found |-> FALSE, num |-> 0, den |-> 0]
    ELSE IF MatchFramerateAt(caps, i).found THEN MatchFramerateAt(caps, i)
    ELSE FindFramerate(caps, i + 1)

ZeroRate == [num |-> 0, den |-> 1]

\* Decoder.extractFrameRateFromProperties: num/den, or 0
extractFrameRateFromProperties(props) ==
    LET m    == FindValue(props, "restriction-caps=(string)", {SP, CM, SC}, 1)
        caps == IF m.quoted # <<>> THEN m.quoted ELSE m.bare
        f    == FindFramerate(caps, 1)
    IN  IF ~m.found \/ ~f.found \/ f.den = 0 THEN ZeroRate
        ELSE [num |-> f.num, den |-> f.den]

\* a plausible slip: the track type is not looked at
DecoderExtractFrameRateAnyTrack(tracks, rate) ==
    LET rs == SelectSeq([i \in 1..Len(tracks) |->
                            extractFrameRateFromProperties(tracks[i].properties)],
                        LAMBDA r : r.num > 0)
    IN  IF rs # <<>> THEN rs[1] ELSE rate

\* Decoder.extractFrameRate: the new value of d.rate
DecoderExtractFrameRate(tracks, rate) ==
    LET v  == SelectSeq(tracks, LAMBDA t : t.trackType = TrackTypeVideo)
        rs == SelectSeq([i \in 1..Len(v) |->
                            extractFrameRateFromProperties(v[i].properties)],
                        LAMBDA r : r.num > 0)
    IN  IF rs # <<>> THEN rs[1] ELSE rate


\* strings.ToLower on the tokens that carry upper-case letters
LowerToken(c) ==
    CASE c \in {"Crossfade", "CROSSFADE", "cRoSsFaDe"} -> "crossfade"
      [] c = "MyFancyWipe" -> "myfancywipe"
      [] c \in {"Wipe", "WIPE"} -> "wipe"
      [] c \in {"Clock-Wipe", "CLOCK-WIPE"} -> "clock-wipe"
      [] c \in {"BarWipe", "BARWIPE"} -> "barwipe"
      [] c \in {"Box-Wipe", "BOX-WIPE"} -> "box-wipe"
      [] OTHER -> c

ToLower(s) == [i \in 1..Len(s) |-> LowerToken(s[i])]

\* a plausible slip: the asset-id is compared as it is written
mapTransitionTypeCaseSensitive(assetID) ==
    CASE assetID = <<"crossfade">> -> <<"SMPTE_Dissolve">>
      [] assetID = <<"wipe">> -> <<"SMPTE_Wipe">>
      [] assetID = <<"clock-wipe">> -> <<"SMPTE_ClockWipe">>
      [] assetID = <<"barwipe">> -> <<"SMPTE_BarWipe">>
      [] assetID = <<"box-wipe">> -> <<"SMPTE_BoxWipe">>
      [] OTHER -> assetID

\* Decoder.mapTransitionType
mapTransitionType(assetID) ==
    LET l == ToLower(assetID)
    IN  CASE l = <<"crossfade">> -> <<"SMPTE_Dissolve">>
          [] l = <<"wipe">> -> <<"SMPTE_Wipe">>
          [] l = <<"clock-wipe">> -> <<"SMPTE_ClockWipe">>
          [] l = <<"barwipe">> -> <<"SMPTE_BarWipe">>
          [] l = <<"box-wipe">> -> <<"SMPTE_BoxWipe">>
          [] OTHER -> assetID

\* the "xges" metadata holding a non-empty children-properties string
ChildrenPropertiesMetadata(xgesClip) ==
    IF xgesClip.childrenProperties = <<>> THEN NoMetadata
    ELSE [k \in {"children-properties"} |-> xgesClip.childrenProperties]

\* the source range every decoded clip gets
DecodedSourceRange(xgesClip, rate) ==
    [start |-> toRationalTime(xgesClip.inpoint, rate),
     duration |-> toRationalTime(xgesClip.duration, rate)]

\* Decoder.convertTransition; halfDuration is duration.Value()/2 at the rate
DecoderConvertTransition(xgesClip, rate) ==
    LET halfDuration == [sn |-> xgesClip.duration, sd |-> 2 * GSTSecond,
                         rate |-> rate]
    IN  [type |-> "Transition",
         name |-> extractName(xgesClip.properties),
         transitionType |-> mapTransitionType(xgesClip.assetID),
         inOffset |-> halfDuration,
         outOffset |-> halfDuration,
         metadata |-> ChildrenPropertiesMetadata(xgesClip)]

convertURIClip(xgesClip, rate) ==
    [type |-> "Clip",
     name |-> extractName(xgesClip.properties),
     ref |-> [variant |-> "ExternalReference", url |-> xgesClip.assetID],
     sourceRange |-> DecodedSourceRange(xgesClip, rate),
     metadata |-> ChildrenPropertiesMetadata(xgesClip)]

convertTestClip(xgesClip, rate) ==
    [type |-> "Clip",
     name |-> extractName(xgesClip.properties),
     ref |-> [variant |-> "GeneratorReference",
              kind |-> IF xgesClip.assetID = <<>> THEN <<"black">>
                       ELSE xgesClip.assetID],
     sourceRange |-> DecodedSourceRange(xgesClip, rate),
     metadata |-> ChildrenPropertiesMetadata(xgesClip)]

\* a plausible slip: the generator kind of a title clip is its asset-id, as
\* for a test clip
convertTitleClipKindOfAsset(xgesClip, rate) ==
    [type |-> "Clip",
     name |-> extractName(xgesClip.properties),
     ref |-> [variant |-> "GeneratorReference", kind |-> xgesClip.assetID],
     sourceRange |-> DecodedSourceRange(xgesClip, rate),
     metadata |-> ("clip-type" :> <<"title">>)]

\* Decoder.convertTitleClip; the text is found by
\* text=\(string\)(?:"([^"]+)"|(\S+))
convertTitleClip(xgesClip, rate) ==
    LET m    == FindValue(xgesClip.childrenProperties, "text=(string)", WhiteSpace, 1)
        text == IF m.quoted # <<>> THEN m.quoted ELSE m.bare
        keys == {"clip-type"}
                \cup (IF xgesClip.childrenProperties # <<>>
                      THEN {"children-properties"} ELSE {})
                \cup (IF xgesClip.childrenProperties # <<>> /\ m.found
                      THEN {"text"} ELSE {})
    IN  [type |-> "Clip",
         name |-> extractName(xgesClip.properties),
         ref |-> [variant |-> "GeneratorReference", kind |-> <<"title">>],
         sourceRange |-> DecodedSourceRange(xgesClip, rate),
         metadata |-> [k \in keys |->
                         CASE k = "clip-type" -> <<"title">>
                           [] k = "children-properties" -> xgesClip.childrenProperties
                           [] k = "text" -> unescapeGstString(text)]]

\* a plausible slip: a test clip is taken for a URI clip
DecoderConvertClipTestAsURI(xgesClip, rate) ==
    CASE xgesClip.typeName = ClipTypeTransition -> DecoderConvertTransition(xgesClip, rate)
      [] xgesClip.typeName \in {ClipTypeURI, ClipTypeTest} -> convertURIClip(xgesClip, rate)
      [] xgesClip.typeName = ClipTypeTitle -> convertTitleClip(xgesClip, rate)
      [] OTHER -> [type |-> "Gap", duration |-> toRationalTime(xgesClip.duration, rate)]

\* Decoder.convertClip: the dispatch on type-name
DecoderConvertClip(xgesClip, rate) ==
    CASE xgesClip.typeName = ClipTypeTransition -> DecoderConvertTransition(xgesClip, rate)
      [] xgesClip.typeName = ClipTypeURI -> convertURIClip(xgesClip, rate)
      [] xgesClip.typeName = ClipTypeTest -> convertTestClip(xgesClip, rate)
      [] xgesClip.typeName = ClipTypeTitle -> convertTitleClip(xgesClip, rate)
      [] OTHER -> [type |-> "Gap", duration |-> toRationalTime(xgesClip.duration, rate)]

\* the loop of Decoder.addClipsToTrack from clip i on: the children of the
\* track after it
RECURSIVE AddLoop(_, _, _, _, _)
AddLoop(children, clips, i, currentTime, rate) ==
    IF i > Len(clips) THEN children
    ELSE LET c   == clips[i]
             gap == IF c.start > currentTime
                    THEN <<[type |-> "Gap",
                            duration |-> toRationalTime(c.start - currentTime, rate)]>>
                    ELSE <<>>
         IN  AddLoop(children \o gap \o <<DecoderConvertClip(c, rate)>>,
                     clips, i + 1, c.start + c.duration, rate)

\* a plausible slip: the cursor is advanced by the duration of the element
\* instead of being set to its end
RECURSIVE AddLoopCursorAdds(_, _, _, _, _)
AddLoopCursorAdds(children, clips, i, currentTime, rate) ==
    IF i > Len(clips) THEN children
    ELSE LET c   == clips[i]
             gap == IF c.start > currentTime
                    THEN <<[type |-> "Gap",
                            duration |-> toRationalTime(c.start - currentTime, rate)]>>
                    ELSE <<>>
         IN  AddLoopCursorAdds(children \o gap \o <<DecoderConvertClip(c, rate)>>,
                               clips, i + 1, currentTime + c.duration, rate)

addClipsToTrackCursorAdds(children, clips, rate) ==
    AddLoopCursorAdds(children, clips, 1, 0, rate)

\* a plausible slip: the gap before an element lasts from 0 to the element's
\* start, not from the cursor
RECURSIVE AddLoopGapFromZero(_, _, _, _, _)
AddLoopGapFromZero(children, clips, i, currentTime, rate) ==
    IF i > Len(clips) THEN children
    ELSE LET c   == clips[i]
             gap == IF c.start > currentTime
                    THEN <<[type |-> "Gap",
                            duration |-> toRationalTime(c.start, rate)]>>
                    ELSE <<>>
         IN  AddLoopGapFromZero(children \o gap \o <<DecoderConvertClip(c, rate)>>,
                                clips, i + 1, c.start + c.duration, rate)

addClipsToTrackGapFromZero(children, clips, rate) ==
    AddLoopGapFromZero(children, clips, 1, 0, rate)

\* a plausible slip: no gap is synthesized before an element
addClipsToTrackNoGap(children, clips, rate) ==
    children \o [i \in 1..Len(clips) |-> DecoderConvertClip(clips[i], rate)]

\* Decoder.addClipsToTrack: the children of the track after the call
addClipsToTrack(children, clips, rate) == AddLoop(children, clips, 1, 0, rate)

\* a & b on naturals
RECURSIVE BitAnd(_, _)
BitAnd(a, b) ==
    IF a = 0 \/ b = 0 THEN 0
    ELSE 2 * BitAnd(a \div 2, b \div 2) + (IF a % 2 = 1 /\ b % 2 = 1 THEN 1 ELSE 0)

\* a plausible slip: the bitmask is not tested, every track gets every clip
processLayerAllTracks(layer, tracksByType, rate) ==
    [tt \in DOMAIN tracksByType |->
        [tracksByType[tt] EXCEPT
           !.children = addClipsToTrack(@, layer.clips, rate)]]

\* Decoder.processLayer: tracksByType after the layer.  Each track type of
\* the map gets the layer's clips whose bitmask meets it, in layer order;
\* the tracks are distinct objects, so the order in which the map is walked
\* does not show in the result.
processLayer(layer, tracksByType, rate) ==
    [tt \in DOMAIN tracksByType |->
        LET clips == SelectSeq(layer.clips, LAMBDA c : BitAnd(c.trackTypes, tt) # 0)
        IN  [tracksByType[tt] EXCEPT
               !.children = addClipsToTrack(@, clips, rate)]]

RECURSIVE ProcessLayers(_, _, _)
ProcessLayers(layers, tracksByType, rate) ==
    IF layers = <<>> THEN tracksByType
    ELSE ProcessLayers(Tail(layers), processLayer(Head(layers), tracksByType, rate),
                       rate)

\* Decoder.createTrack
createTrack(xgesTrack) ==
    [kind |-> IF xgesTrack.trackType = TrackTypeAudio THEN "Audio" ELSE "Video",
     children |-> <<>>]

\* a plausible slip: a track is appended for every Track element of its type
convertTimelinePerTrackElement(xgesTimeline, rate) ==
    LET types == {xgesTimeline.tracks[i].trackType : i \in 1..Len(xgesTimeline.tracks)}
        tracksByType == [tt \in types |-> createTrack([trackType |-> tt])]
        done  == ProcessLayers(xgesTimeline.layers, tracksByType, rate)
        v     == SelectSeq(xgesTimeline.tracks,
                           LAMBDA t : t.trackType = TrackTypeVideo)
        a     == SelectSeq(xgesTimeline.tracks,
                           LAMBDA t : t.trackType = TrackTypeAudio)
    IN  [i \in 1..Len(v) |-> done[TrackTypeVideo]]
        \o [i \in 1..Len(a) |-> done[TrackTypeAudio]]

\* Decoder.convertTimeline: the tracks of the timeline, video before audio
convertTimeline(xgesTimeline, rate) ==
    LET types == {xgesTimeline.tracks[i].trackType : i \in 1..Len(xgesTimeline.tracks)}
        last(tt) == CHOOSE i \in 1..Len(xgesTimeline.tracks) :
                       /\ xgesTimeline.tracks[i].trackType = tt
                       /\ \A j \in (i + 1)..Len(xgesTimeline.tracks) :
                             xgesTimeline.tracks[j].trackType # tt
        tracksByType == [tt \in types |-> createTrack(xgesTimeline.tracks[last(tt)])]
        done  == ProcessLayers(xgesTimeline.layers, tracksByType, rate)
        v     == IF TrackTypeVideo \in types THEN <<done[TrackTypeVideo]>> ELSE <<>>
        a     == IF TrackTypeAudio \in types THEN <<done[TrackTypeAudio]>> ELSE <<>>
    IN  v \o a

\* the orders in which a range loop may walk a map of the given keys
Orders(keys) ==
    {o \in [1..Cardinality(keys) -> keys] :
        \A i, j \in DOMAIN o : o[i] = o[j] => i = j}

\* Decoder.processLayer, the inner loop for one clip: the keys of
\* tracksByType are walked in the given order from position k on and the
\* clip is appended to the group of every key its bitmask meets
RECURSIVE GroupClip(_, _, _, _)
GroupClip(clipsByTrack, clip, order, k) ==
    IF k > Len(order) THEN clipsByTrack
    ELSE LET tt == order[k]
         IN  GroupClip(IF BitAnd(clip.trackTypes, tt) = 0 THEN clipsByTrack
                       ELSE IF tt \in DOMAIN clipsByTrack
                       THEN [clipsByTrack EXCEPT ![tt] = Append(@, clip)]
                       ELSE clipsByTrack @@ (tt :> <<clip>>),
                       clip, order, k + 1)

\* Decoder.processLayer, the first loop from clip i on
RECURSIVE GroupClips(_, _, _, _)
GroupClips(clipsByTrack, clips, i, order) ==
    IF i > Len(clips) THEN clipsByTrack
    ELSE GroupClips(GroupClip(clipsByTrack, clips[i], order, 1), clips, i + 1,
                    order)

\* Decoder.processLayer, the second loop: the groups are walked in the given
\* order of the keys, from position k on, and each is added to its track
RECURSIVE WalkGroups(_, _, _, _, _)
WalkGroups(tracksByType, clipsByTrack, order, k, rate) ==
    IF k > Len(order) THEN tracksByType
    ELSE LET tt == order[k]
         IN  WalkGroups(IF tt \in DOMAIN clipsByTrack
                        THEN [tracksByType EXCEPT
                                ![tt].children =
                                    addClipsToTrack(@, clipsByTrack[tt], rate)]
                        ELSE tracksByType,
                        clipsByTrack, order, k + 1, rate)

\* Decoder.processLayer with the orders of its two range loops over maps
processLayerInOrder(layer, tracksByType, rate, grouping, walk) ==
    WalkGroups(tracksByType,
               GroupClips([tt \in {} |-> <<>>], layer.clips, 1, grouping),
               walk, 1, rate)

RECURSIVE ProcessLayersInOrder(_, _, _, _, _)
ProcessLayersInOrder(layers, tracksByType, rate, grouping, walk) ==
    IF layers = <<>> THEN tracksByType
    ELSE ProcessLayersInOrder(Tail(layers),
                              processLayerInOrder(Head(layers), tracksByType,
                                                  rate, grouping, walk),
                              rate, walk, grouping)

\* the track of each track type after the loop over the Track elements from
\* element i on: a later element of a type replaces the earlier one's track
RECURSIVE CreateTracks(_, _, _)
CreateTracks(tracksByType, tracks, i) ==
    IF i > Len(tracks) THEN tracksByType
    ELSE CreateTracks((tracks[i].trackType :> createTrack(tracks[i]))
                      @@ tracksByType, tracks, i + 1)

\* a plausible slip: the tracks are appended to the timeline in the order a
\* range loop walks tracksByType
convertTimelineInMapOrder(xgesTimeline, rate, grouping, walk) ==
    LET tracksByType == CreateTracks([tt \in {} |-> <<>>], xgesTimeline.tracks, 1)
        done == ProcessLayersInOrder(xgesTimeline.layers, tracksByType, rate,
                                     grouping, walk)
        kept == SelectSeq(walk, LAMBDA tt : tt \in {TrackTypeVideo, TrackTypeAudio})
    IN  [i \in 1..Len(kept) |-> done[kept[i]]]

\* Decoder.convertTimeline, statement by statement, with the orders of the
\* range loops over maps: the first layer is grouped in the order grouping
\* and walked in the order walk, the next one the other way round, and so on
convertTimelineInOrder(xgesTimeline, rate, grouping, walk) ==
    LET tracksByType == CreateTracks([tt \in {} |-> <<>>], xgesTimeline.tracks, 1)
        done == ProcessLayersInOrder(xgesTimeline.layers, tracksByType, rate,
                                     grouping, walk)
    IN  (IF TrackTypeVideo \in DOMAIN done THEN <<done[TrackTypeVideo]>> ELSE <<>>)
        \o (IF TrackTypeAudio \in DOMAIN done THEN <<done[TrackTypeAudio]>> ELSE <<>>)

\* Decoder.Decode of a document that parses, with the orders of the range
\* loops over maps
DecodeInOrder(ges, rate0, grouping, walk) ==
    LET rate == DecoderExtractFrameRate(ges.project.timeline.tracks, rate0)
    IN  [rate |-> rate,
         timeline |-> [name |-> extractName(ges.project.metadatas),
                       tracks |-> convertTimelineInOrder(ges.project.timeline,
                                                         rate, grouping, walk)]]

\* Decoder.Decode of a document that parses, for a decoder whose rate is
\* rate0: the rate it leaves in d.rate and the timeline it returns
Decode(ges, rate0) ==
    LET rate == DecoderExtractFrameRate(ges.project.timeline.tracks, rate0)
    IN  [rate |-> rate,
         timeline |-> [name |-> extractName(ges.project.metadatas),
                       tracks |-> convertTimeline(ges.project.timeline, rate)]]

-----------------------------------------------------------------------------
(* Errors, the output stream and what a call returns.                      *)

\* Clip.Duration() succeeds: the clip has a source range (none of the clips
\* here has a media reference with an available range)
HasRange(child) == "duration" \in DOMAIN child.sourceRange

\* a source range that is nil
NoRange == [k \in {} |-> 0]

\* convertTrackToLayer returns an error for some video or audio track:
\* clip.Duration() fails in convertClip
DurationError(tl) ==
    \E i \in 1..Len(tl.tracks) :
        \E j \in 1..Len(tl.tracks[i].children) :
            /\ tl.tracks[i].children[j].type = "Clip"
            /\ ~HasRange(tl.tracks[i].children[j])

\* the three Write calls of Encode, in order
WriteChunks == <<"xml.Header", "document", "newline">>

WholeStream == WriteChunks

\* a writer is [failAt, partial]: the number of the Write call that returns
\* an error (0: none does) and whether that call wrote some of its bytes
BytesBuffer == [failAt |-> 0, partial |-> FALSE]

\* a plausible slip: the error of the first Write is not looked at
WriteAllHeaderUnchecked(w) ==
    IF w.failAt = 0 THEN [out |-> WriteChunks, err |-> "nil"]
    ELSE IF w.failAt = 1
         THEN [out |-> (IF w.partial THEN <<"part of " \o WriteChunks[1]>>
                        ELSE <<>>) \o Tail(WriteChunks),
               err |-> "nil"]
         ELSE [out |-> SubSeq(WriteChunks, 1, w.failAt - 1)
                       \o (IF w.partial THEN <<"part of " \o WriteChunks[w.failAt]>>
                           ELSE <<>>),
               err |-> "write"]

\* the writes of Encode on writer w: what reaches the stream and the error
\* Encode returns
WriteAll(w) ==
    IF w.failAt = 0 THEN [out |-> WriteChunks, err |-> "nil"]
    ELSE [out |-> SubSeq(WriteChunks, 1, w.failAt - 1)
                  \o (IF w.partial THEN <<"part of " \o WriteChunks[w.failAt]>>
                      ELSE <<>>),
          err |-> "write"]

\* xml.Decoder.Decode(&ges) succeeds: the whole ges element is on the stream
Parses(s) == \E i \in 1..Len(s) : s[i] = "document"

\* no call has returned yet
NoCall == [call |-> "none", value |-> "none", err |-> "nil"]

-----------------------------------------------------------------------------
(* The driving program: NewEncoder, Encode into a buffer, NewDecoder on    *)
(* that buffer, Decode, then NewEncoder and Encode of the decoded timeline *)
(* (the sequence of TestRoundTrip).                                        *)

\* encoder := NewEncoder(w); err := encoder.Encode(timeline).  An unreadable
\* child duration returns before anything is written; otherwise the document
\* is built and the three writes run until one fails.
EncodeStep ==
    /\ pc = "start"
    /\ encoder' = [rate |-> EncoderExtractFrameRate(timeline, DefaultRate)]
    /\ IF DurationError(timeline)
       THEN /\ buf' = buf
            /\ stream' = stream
            /\ ret' = [call |-> "Encode", value |-> "none", err |-> "duration"]
            /\ pc' = "encodeFailed"
       ELSE LET w == WriteAll(writer)
            IN  /\ buf' = Encode(timeline, DefaultRate).ges
                /\ stream' = stream \o w.out
                /\ ret' = [call |-> "Encode", value |-> "none", err |-> w.err]
                /\ pc' = IF w.err = "nil" THEN "encoded" ELSE "encodeFailed"
    /\ UNCHANGED <<str, escaped, unescaped, timeline, decoder, decoded,
                   encoder2, buf2, docDesc, writer>>

\* err := encoder.Encode(tl) on the encoder of an earlier Encode call: e.rate
\* is what that call left, and the writes go to the same writer
EncodeAgain(tl) ==
    /\ pc \in {"encoded", "encodeFailed"}
    /\ Len(stream) < Len(WriteChunks) * MaxEncodeCalls
    /\ timeline' = tl
    /\ encoder' = [rate |-> EncoderExtractFrameRate(tl, encoder.rate)]
    /\ IF DurationError(tl)
       THEN /\ buf' = buf
            /\ stream' = stream
            /\ ret' = [call |-> "Encode", value |-> "none", err |-> "duration"]
            /\ pc' = "encodeFailed"
       ELSE LET w == WriteAll(writer)
            IN  /\ buf' = Encode(tl, encoder.rate).ges
                /\ stream' = stream \o w.out
                /\ ret' = [call |-> "Encode", value |-> "none", err |-> w.err]
                /\ pc' = IF w.err = "nil" THEN "encoded" ELSE "encodeFailed"
    /\ UNCHANGED <<str, escaped, unescaped, decoder, decoded,
                   encoder2, buf2, docDesc, writer>>

\* decoder := NewDecoder(r); timeline, err := decoder.Decode().  The stream
\* parses when the whole document element is on it.
DecodeStep ==
    /\ pc \in {"encoded", "encodeFailed"}
    /\ IF Parses(stream)
       THEN LET r == Decode(buf, DefaultRate)
            IN  /\ decoder' = [rate |-> r.rate]
                /\ decoded' = r.timeline
                /\ ret' = [call |-> "Decode", value |-> "timeline", err |-> "nil"]
                /\ pc' = "decoded"
       ELSE /\ decoder' = [rate |-> DefaultRate]
            /\ decoded' = decoded
            /\ ret' = [call |-> "Decode", value |-> "nil", err |-> "parse"]
            /\ pc' = "decodeFailed"
    /\ UNCHANGED <<str, escaped, unescaped, timeline, encoder, buf,
                   encoder2, buf2, docDesc, writer, stream>>

\* the track types of the Track elements of a document
TrackTypesOf(ges) ==
    {ges.project.timeline.tracks[i].trackType :
        i \in 1..Len(ges.project.timeline.tracks)}

\* decoder := NewDecoder(&buf); decoded, err := decoder.Decode(), the Go
\* runtime choosing the order of every range loop over a map
DecodeInOrderStep ==
    /\ pc = "encoded"
    /\ \E grouping, walk \in Orders(TrackTypesOf(buf)) :
          LET r == DecodeInOrder(buf, DefaultRate, grouping, walk)
          IN  /\ decoder' = [rate |-> r.rate]
              /\ decoded' = r.timeline
    /\ ret' = [call |-> "Decode", value |-> "timeline", err |-> "nil"]
    /\ pc' = "decoded"
    /\ UNCHANGED <<str, escaped, unescaped, timeline, encoder, buf,
                   encoder2, buf2, docDesc, writer, stream>>

\* encoder2 := NewEncoder(&buf2); encoder2.Encode(decoded), buf2 a
\* bytes.Buffer
ReEncodeStep ==
    /\ pc = "decoded"
    /\ LET r == Encode(decoded, DefaultRate)
       IN  /\ encoder2' = [rate |-> r.rate]
           /\ buf2' = r.ges
    /\ ret' = [call |-> "Encode", value |-> "none", err |-> "nil"]
    /\ pc' = "reencoded"
    /\ UNCHANGED <<str, escaped, unescaped, timeline, encoder, buf,
                   decoder, decoded, docDesc, writer, stream>>

\* escaped := encoder.escapeGstString(str)
EscapeStep ==
    /\ pc = "string"
    /\ escaped' = escapeGstString(str)
    /\ pc' = "escaped"
    /\ UNCHANGED <<str, unescaped, timeline, encoder, buf, decoder, decoded,
                   encoder2, buf2, docDesc, writer, stream, ret>>

\* unescaped := decoder.unescapeGstString(escaped)
UnescapeStep ==
    /\ pc = "escaped"
    /\ unescaped' = unescapeGstString(escaped)
    /\ pc' = "unescaped"
    /\ UNCHANGED <<str, escaped, timeline, encoder, buf, decoder, decoded,
                   encoder2, buf2, docDesc, writer, stream, ret>>

-----------------------------------------------------------------------------
(* Inputs.                                                                 *)

\* 24 frames per second: a frame is not a whole number of nanoseconds
SourceRates == {24}

\* a clip with an ExternalReference and a source range of whole frames
ExternalClip(name, url, start, dur, rate) ==
    [type |-> "Clip", name |-> name,
     ref |-> [variant |-> "ExternalReference", url |-> url],
     sourceRange |-> [start |-> NewRationalTime(start, rate),
                      duration |-> NewRationalTime(dur, rate)],
     metadata |-> NoMetadata]

GapOf(dur, rate) == [type |-> "Gap", duration |-> NewRationalTime(dur, rate)]

TransitionOf(name, transitionType, in, out, rate) ==
    [type |-> "Transition", name |-> name, transitionType |-> transitionType,
     inOffset |-> NewRationalTime(in, rate),
     outOffset |-> NewRationalTime(out, rate),
     metadata |-> NoMetadata]

\* the children a track of the round-trip timelines is made of, by code
ClipOrGap(code, rate) ==
    CASE code = 1 -> ExternalClip(<<"a">>, <<"file:///a.mp4">>, 0, 1, rate)
      [] code = 2 -> ExternalClip(<<>>, <<>>, 1, 2, rate)
      [] code = 3 -> GapOf(1, rate)
      [] code = 4 -> GapOf(2, rate)

ClipOrGapCodes == {1, 2, 3, 4}

\* the sequences over chars of length n exactly
RECURSIVE StringsOfLen(_, _)
StringsOfLen(chars, n) ==
    IF n = 0 THEN {<<>>}
    ELSE {Append(s, c) : s \in StringsOfLen(chars, n - 1), c \in chars}

\* the shapes [kind, codes] of k tracks that have at most n children in all;
\* a timeline shape has at most MaxItems tracks and children together
RECURSIVE TrackShapes(_, _, _)
TrackShapes(k, n, codes) ==
    IF k = 0 THEN {<<>>}
    ELSE UNION {{<<[kind |-> kd, codes |-> cs]>> \o rest :
                    kd \in {"Video", "Audio"},
                    cs \in StringsOfLen(codes, l),
                    rest \in TrackShapes(k - 1, n - l, codes)} :
                l \in 0..n}

TimelineShapes(codes) ==
    UNION {TrackShapes(k, MaxItems - k, codes) : k \in 0..MaxItems}

\* the timeline of a shape: childOf[code] is the child of a code
TimelineOf(name, shape, childOf) ==
    [name |-> name,
     tracks |-> [i \in 1..Len(shape) |->
                   [kind |-> shape[i].kind,
                    children |-> [j \in 1..Len(shape[i].codes) |->
                                    childOf[shape[i].codes[j]]]]]]

\* round trip of timelines of ExternalReference clips and Gaps
Init ==
    /\ pc = "start"
    /\ \E shape \in TimelineShapes(ClipOrGapCodes), rate \in SourceRates :
          timeline = TimelineOf(<<"a", SP, "a">>, shape,
                                [c \in ClipOrGapCodes |-> ClipOrGap(c, rate)])
    /\ str = None /\ escaped = None /\ unescaped = None
    /\ encoder = None /\ buf = None /\ decoder = None /\ decoded = None
    /\ encoder2 = None /\ buf2 = None /\ docDesc = None
    /\ writer = BytesBuffer /\ stream = <<>> /\ ret = NoCall

Next == EncodeStep \/ DecodeStep \/ ReEncodeStep

Spec == Init /\ [][Next]_vars

\* the escaping functions on every string up to MaxStrLen
InitStr ==
    /\ pc = "string"
    /\ str \in StringsUpTo(NameChars, MaxStrLen)
    /\ escaped = None /\ unescaped = None
    /\ timeline = None /\ encoder = None /\ buf = None
    /\ decoder = None /\ decoded = None /\ encoder2 = None /\ buf2 = None
    /\ docDesc = None
    /\ writer = BytesBuffer /\ stream = <<>> /\ ret = NoCall

NextStr == EscapeStep \/ UnescapeStep

SpecStr == InitStr /\ [][NextStr]_vars

\* timeline and clip names over the whole alphabet
InitNames ==
    /\ pc = "start"
    /\ \E tn \in StringsUpTo(NameChars, MaxNameLen),
          cn \in StringsUpTo(NameChars, MaxNameLen) :
          timeline = [name |-> tn,
                      tracks |-> <<[kind |-> "Video",
                                    children |-> <<ExternalClip(cn, <<"file:///a.mp4">>,
                                                                0, 1, 24)>>]>>]
    /\ str = None /\ escaped = None /\ unescaped = None
    /\ encoder = None /\ buf = None /\ decoder = None /\ decoded = None
    /\ encoder2 = None /\ buf2 = None /\ docDesc = None
    /\ writer = BytesBuffer /\ stream = <<>> /\ ret = NoCall

SpecNames == InitNames /\ [][Next]_vars

\* the transition types: the five SMPTE types, the empty type, the custom
\* tag, and a type that is none of these
TransitionTypes ==
    {<<"SMPTE_Dissolve">>, <<"SMPTE_Wipe">>, <<"SMPTE_ClockWipe">>,
     <<"SMPTE_BarWipe">>, <<"SMPTE_BoxWipe">>, <<>>, <<"Custom_Transition">>,
     <<"MyFancyWipe">>}

TransitionCodes == TransitionTypes \cup {<<"clip">>}

TransitionOrClip(code, rate) ==
    IF code = <<"clip">> THEN ExternalClip(<<"a">>, <<"file:///a.mp4">>, 0, 2, rate)
    ELSE TransitionOf(<<"t">>, code, 1, 2, rate)

\* one video track of transitions of every type and clips
InitTransitions ==
    /\ pc = "start"
    /\ \E codes \in StringsUpTo(TransitionCodes, MaxTransitions) :
          timeline = TimelineOf(<<"a">>, <<[kind |-> "Video", codes |-> codes]>>,
                                [c \in TransitionCodes |-> TransitionOrClip(c, 24)])
    /\ str = None /\ escaped = None /\ unescaped = None
    /\ encoder = None /\ buf = None /\ decoder = None /\ decoded = None
    /\ encoder2 = None /\ buf2 = None /\ docDesc = None
    /\ writer = BytesBuffer /\ stream = <<>> /\ ret = NoCall

SpecTransitions == InitTransitions /\ [][Next]_vars

\* the properties string of a hand-written Track element, by form:
\*   none      no restriction-caps
\*   outside   a framerate field, but not inside restriction-caps
\*   capsonly  quoted restriction-caps without a framerate
\*   quoted    quoted restriction-caps with an escaped framerate field
\*   bare      unquoted restriction-caps that are a framerate field
TrackProperties(desc) ==
    LET fraction == Digits(desc.num) \o <<"/">> \o Digits(desc.den)
    IN  CASE desc.form = "none" -> <<"properties", SC>>
          [] desc.form = "outside" ->
               <<"properties", CM, SP, "framerate", "=", "(fraction", ")">>
               \o fraction \o <<SC>>
          [] desc.form = "capsonly" ->
               <<"properties", CM, SP, "restriction-caps=(string)", DQ,
                 "video/x-raw", DQ, SC>>
          [] desc.form = "quoted" ->
               <<"properties", CM, SP, "restriction-caps=(string)", DQ,
                 "video/x-raw", BS, CM, BS, SP,
                 "framerate", BS, "=", BS, "(fraction", BS, ")">>
               \o fraction \o <<DQ, SC>>
          [] desc.form = "bare" ->
               <<"properties", CM, SP, "restriction-caps=(string)",
                 "framerate", "=", "(fraction", ")">>
               \o fraction \o <<SC>>

Fractions == {<<30, 1>>, <<24000, 1001>>, <<0, 1>>, <<30, 0>>}

TrackDescs ==
    {[trackType |-> tt, form |-> f, num |-> 0, den |-> 0] :
        tt \in {TrackTypeVideo, TrackTypeAudio}, f \in {"none", "capsonly"}}
    \cup {[trackType |-> tt, form |-> "outside", num |-> 30, den |-> 1] :
            tt \in {TrackTypeVideo, TrackTypeAudio}}
    \cup {[trackType |-> tt, form |-> f, num |-> q[1], den |-> q[2]] :
            tt \in {TrackTypeVideo, TrackTypeAudio}, f \in {"quoted", "bare"},
            q \in Fractions}

\* the framerate of the timeline metadatas of a hand-written document: none
\* (0) or a whole rate
MetaRates == {0, 30}

\* a hand-written document: the described Track elements, timeline
\* metadatas with or without a framerate, and one layer with one URI clip
DocumentOf(desc) ==
    [version |-> "0.3",
     project |->
       [properties |-> <<"properties", SC>>,
        metadatas |-> <<"metadatas", CM, SP, "name=(string)", DQ, "a", DQ, SC>>,
        timeline |->
          [properties |-> <<"properties", SC>>,
           metadatas |-> IF desc.metaRate = 0 THEN <<"metadatas", SC>>
                         ELSE <<"metadatas", CM, SP, "framerate", "=",
                                "(fraction", ")">>
                              \o Digits(desc.metaRate) \o <<"/", "1", SC>>,
           tracks |-> [i \in 1..Len(desc.tracks) |->
                         [caps |-> <<"video/x-raw(ANY)">>,
                          trackType |-> desc.tracks[i].trackType,
                          trackID |-> i - 1,
                          properties |-> TrackProperties(desc.tracks[i]),
                          metadatas |-> <<"metadatas", SC>>]],
           layers |-> <<[priority |-> 0,
                         properties |-> <<"properties", SC>>,
                         metadatas |-> <<"metadatas", SC>>,
                         clips |-> <<[id |-> 0,
                                      assetID |-> <<"file:///a.mp4">>,
                                      typeName |-> ClipTypeURI,
                                      layerPriority |-> 0,
                                      trackTypes |-> TrackTypeVideo,
                                      start |-> 0,
                                      duration |-> GSTSecond,
                                      inpoint |-> 0,
                                      rate |-> 0,
                                      properties |-> <<"properties", CM, SP,
                                                       "name=(string)", DQ, "a", DQ, SC>>,
                                      childrenProperties |-> <<>>]>>]>>]]]

\* decoding of hand-written documents
InitDoc ==
    /\ pc = "encoded"
    /\ \E ts \in StringsUpTo(TrackDescs, MaxDocTracks), m \in MetaRates :
          /\ docDesc = [tracks |-> ts, metaRate |-> m]
          /\ buf = DocumentOf([tracks |-> ts, metaRate |-> m])
    /\ str = None /\ escaped = None /\ unescaped = None
    /\ timeline = None /\ encoder = None /\ decoder = None /\ decoded = None
    /\ encoder2 = None /\ buf2 = None
    /\ writer = BytesBuffer /\ stream = WholeStream /\ ret = NoCall

NextDoc == DecodeStep \/ ReEncodeStep

SpecDoc == InitDoc /\ [][NextDoc]_vars

\* the media reference and "xges" metadata of the clips of a media-reference
\* timeline: ExternalReference with and without URL, GeneratorReference of
\* kind title (with and without a text), of another kind and of no kind, a
\* MissingReference, and no reference
RefKinds ==
    {[ref |-> [variant |-> "ExternalReference", url |-> <<"file:///a.mp4">>],
      metadata |-> NoMetadata],
     [ref |-> [variant |-> "ExternalReference", url |-> <<>>],
      metadata |-> NoMetadata],
     [ref |-> [variant |-> "GeneratorReference", kind |-> <<"title">>],
      metadata |-> NoMetadata],
     [ref |-> [variant |-> "GeneratorReference", kind |-> <<"title">>],
      metadata |-> [k \in {"text"} |-> <<"H", "i">>]],
     [ref |-> [variant |-> "GeneratorReference", kind |-> <<"bars">>],
      metadata |-> NoMetadata],
     [ref |-> [variant |-> "GeneratorReference", kind |-> <<>>],
      metadata |-> NoMetadata],
     [ref |-> [variant |-> "MissingReference"], metadata |-> NoMetadata],
     [ref |-> [variant |-> "nil"], metadata |-> NoMetadata]}

\* a clip named a of two frames at 24 frames per second
RefClip(kind) ==
    [type |-> "Clip", name |-> <<"a">>, ref |-> kind.ref,
     sourceRange |-> [start |-> NewRationalTime(1, 24),
                      duration |-> NewRationalTime(2, 24)],
     metadata |-> kind.metadata]

\* one video track of clips of every media reference
InitRefs ==
    /\ pc = "start"
    /\ \E kinds \in StringsUpTo(RefKinds, MaxRefClips) :
          timeline = [name |-> <<"a">>,
                      tracks |-> <<[kind |-> "Video",
                                    children |-> [j \in 1..Len(kinds) |->
                                                    RefClip(kinds[j])]]>>]
    /\ str = None /\ escaped = None /\ unescaped = None
    /\ encoder = None /\ buf = None /\ decoder = None /\ decoded = None
    /\ encoder2 = None /\ buf2 = None /\ docDesc = None
    /\ writer = BytesBuffer /\ stream = <<>> /\ ret = NoCall

SpecRefs == InitRefs /\ [][Next]_vars

\* a hand-written clip element named e<id>
XgesClip(id, typeName, assetID, priority, trackTypes, start, duration, inpoint, childrenProperties) ==
    [id |-> id, assetID |-> assetID, typeName |-> typeName,
     layerPriority |-> priority, trackTypes |-> trackTypes,
     start |-> start, duration |-> duration, inpoint |-> inpoint, rate |-> 0,
     properties |-> <<"properties", CM, SP, "name=(string)", DQ, "e">>
                    \o Digits(id) \o <<DQ, SC>>,
     childrenProperties |-> childrenProperties]

\* a hand-written document: Track elements of the given types without a
\* restriction-caps string, and the given layers of clip elements
LayerDocument(trackTypes, layers) ==
    [version |-> "0.3",
     project |->
       [properties |-> <<"properties", SC>>,
        metadatas |-> <<"metadatas", SC>>,
        timeline |->
          [properties |-> <<"properties", SC>>,
           metadatas |-> <<"metadatas", SC>>,
           tracks |-> [i \in 1..Len(trackTypes) |->
                         [caps |-> <<"raw(ANY)">>,
                          trackType |-> trackTypes[i],
                          trackID |-> i - 1,
                          properties |-> <<"properties", SC>>,
                          metadatas |-> <<"metadatas", SC>>]],
           layers |-> [l \in 1..Len(layers) |->
                         [priority |-> l - 1,
                          properties |-> <<"properties", SC>>,
                          metadatas |-> <<"metadatas", SC>>,
                          clips |-> layers[l]]]]]]

\* asset-ids of Transition elements: the five known ones in lower, title
\* and upper case, a mixed case, two unknown ones and the empty one
TransitionAssetIDs ==
    {<<"crossfade">>, <<"Crossfade">>, <<"CROSSFADE">>, <<"cRoSsFaDe">>,
     <<"wipe">>, <<"Wipe">>, <<"WIPE">>,
     <<"clock-wipe">>, <<"Clock-Wipe">>, <<"CLOCK-WIPE">>,
     <<"barwipe">>, <<"BarWipe">>, <<"BARWIPE">>,
     <<"box-wipe">>, <<"Box-Wipe">>, <<"BOX-WIPE">>,
     <<"MyFancyWipe">>, <<"iris">>, <<>>}

\* nanoseconds of every hand-written Transition element
TransitionNs == 100000000

\* one video Track element and one layer of contiguous Transition elements
TransitionDocument(ids) ==
    LayerDocument(<<TrackTypeVideo>>,
        <<[i \in 1..Len(ids) |->
             XgesClip(i - 1, ClipTypeTransition, ids[i], 0, TrackTypeVideo,
                      (i - 1) * TransitionNs, TransitionNs, 0, <<>>)]>>)

\* decoding of layers of Transition elements
InitTransitionDocs ==
    /\ pc = "encoded"
    /\ \E ids \in StringsUpTo(TransitionAssetIDs, MaxDocTransitions) :
          /\ docDesc = [ids |-> ids]
          /\ buf = TransitionDocument(ids)
    /\ str = None /\ escaped = None /\ unescaped = None
    /\ timeline = None /\ encoder = None /\ decoder = None /\ decoded = None
    /\ encoder2 = None /\ buf2 = None
    /\ writer = BytesBuffer /\ stream = WholeStream /\ ret = NoCall

SpecTransitionDocs == InitTransitionDocs /\ [][NextDoc]_vars

\* the type-name, asset-id and inpoint of hand-written clip elements: the
\* four known type-names, a test clip without asset-id, a URI clip whose
\* asset-id reads like a transition's, and two unknown type-names
ElementKinds ==
    {[typeName |-> ClipTypeURI, assetID |-> <<"file:///a.mp4">>,
      inpoint |-> GSTSecond \div 4],
     [typeName |-> ClipTypeURI, assetID |-> <<"crossfade">>, inpoint |-> 0],
     [typeName |-> ClipTypeTest, assetID |-> <<"bars">>, inpoint |-> 0],
     [typeName |-> ClipTypeTest, assetID |-> <<>>, inpoint |-> 0],
     [typeName |-> ClipTypeTitle, assetID |-> ClipTypeTitle, inpoint |-> 0],
     [typeName |-> ClipTypeTransition, assetID |-> <<"crossfade">>, inpoint |-> 0],
     [typeName |-> <<"GESEffectClip">>, assetID |-> <<"agingtv">>, inpoint |-> 0],
     [typeName |-> <<>>, assetID |-> <<"file:///a.mp4">>, inpoint |-> 0]}

\* where an element starts relative to the one before it
Timings == {"overlap", "contiguous", "gap"}

\* the start of the element that follows the elements of layer l: the first
\* at 0 or at 0.1 s, a later one at the start of the one before it, at its
\* end, or 0.5 s (after the first) or 0.15 s after its end
NextStart(l, timing) ==
    IF l = <<>> THEN (IF timing = "gap" THEN GSTSecond \div 10 ELSE 0)
    ELSE LET last == l[Len(l)]
         IN  CASE timing = "overlap" -> last.start
               [] timing = "contiguous" -> last.start + last.duration
               [] timing = "gap" ->
                    last.start + last.duration
                    + (IF Len(l) = 1 THEN GSTSecond \div 2
                       ELSE 3 * (GSTSecond \div 20))

\* the first element lasts 1 s, the later ones 0.05 s
NextDuration(l) == IF l = <<>> THEN GSTSecond ELSE GSTSecond \div 20

\* the layers of n clip elements in non-decreasing start order
RECURSIVE CursorLayers(_)
CursorLayers(n) ==
    IF n = 0 THEN {<<>>}
    ELSE {Append(l, XgesClip(Len(l), k.typeName, k.assetID, 0, TrackTypeVideo,
                             NextStart(l, t), NextDuration(l), k.inpoint, <<>>)) :
            l \in CursorLayers(n - 1), k \in ElementKinds, t \in Timings}

\* decoding of one layer of clip elements of every type-name, for one video
\* Track element
InitCursor ==
    /\ pc = "encoded"
    /\ \E n \in 0..MaxLayerClips : \E l \in CursorLayers(n) :
          /\ docDesc = [clips |-> l]
          /\ buf = LayerDocument(<<TrackTypeVideo>>, <<l>>)
    /\ str = None /\ escaped = None /\ unescaped = None
    /\ timeline = None /\ encoder = None /\ decoder = None /\ decoded = None
    /\ encoder2 = None /\ buf2 = None
    /\ writer = BytesBuffer /\ stream = WholeStream /\ ret = NoCall

SpecCursor == InitCursor /\ [][NextDoc]_vars

\* children-properties strings of hand-written clip elements: none, a
\* quoted text, a bare text, and one without a text
ChildrenPropertiesStrings ==
    {<<>>,
     <<"properties", CM, SP, "text=(string)", DQ, "H", "i", DQ, SC>>,
     <<"properties", CM, SP, "text=(string)", "H", "i", SC>>,
     <<"properties", CM, SP, "alpha=(double)1", SC>>}

\* type-name and asset-id of the elements that carry them
PropertyCarriers ==
    {[typeName |-> ClipTypeURI, assetID |-> <<"file:///a.mp4">>],
     [typeName |-> ClipTypeTest, assetID |-> <<"bars">>],
     [typeName |-> ClipTypeTest, assetID |-> <<"title">>],
     [typeName |-> ClipTypeTitle, assetID |-> ClipTypeTitle],
     [typeName |-> ClipTypeTransition, assetID |-> <<"crossfade">>]}

\* one video Track element and one layer of contiguous elements of 0.1 s
PropertiesDocument(elems) ==
    LayerDocument(<<TrackTypeVideo>>,
        <<[i \in 1..Len(elems) |->
             XgesClip(i - 1, elems[i][1].typeName, elems[i][1].assetID, 0,
                      TrackTypeVideo, (i - 1) * (GSTSecond \div 10),
                      GSTSecond \div 10, 0, elems[i][2])]>>)

\* decoding and encoding again of elements with children-properties
InitProps ==
    /\ pc = "encoded"
    /\ \E elems \in StringsUpTo(PropertyCarriers \X ChildrenPropertiesStrings,
                                MaxPropClips) :
          /\ docDesc = [clips |-> PropertiesDocument(elems).project.timeline.layers[1].clips]
          /\ buf = PropertiesDocument(elems)
    /\ str = None /\ escaped = None /\ unescaped = None
    /\ timeline = None /\ encoder = None /\ decoder = None /\ decoded = None
    /\ encoder2 = None /\ buf2 = None
    /\ writer = BytesBuffer /\ stream = WholeStream /\ ret = NoCall

SpecProps == InitProps /\ [][NextDoc]_vars

\* the shapes of at most n tracks and children together
ShapesUpTo(codes, n) == UNION {TrackShapes(k, n - k, codes) : k \in 0..n}

\* children of the timelines encoded on a failing writer: a clip, a gap and
\* a clip whose Duration() returns an error
ErrCodes == {1, 3, 5}

ErrChild(code, rate) ==
    IF code = 5
    THEN [ExternalClip(<<"b">>, <<"file:///b.mp4">>, 0, 1, rate)
             EXCEPT !.sourceRange = NoRange]
    ELSE ClipOrGap(code, rate)

\* the writers: the Write call that fails (0: none) and whether it wrote
\* part of its bytes
Writers ==
    {w \in [failAt : 0..Len(WriteChunks), partial : BOOLEAN] :
        w.partial => w.failAt > 0}

\* Encode on every writer, then Decode of what reached the stream
InitErrors ==
    /\ pc = "start"
    /\ \E shape \in ShapesUpTo(ErrCodes, MaxErrItems) :
          timeline = TimelineOf(<<"a">>, shape,
                                [c \in ErrCodes |-> ErrChild(c, 24)])
    /\ writer \in Writers
    /\ str = None /\ escaped = None /\ unescaped = None
    /\ encoder = None /\ buf = None /\ decoder = None /\ decoded = None
    /\ encoder2 = None /\ buf2 = None /\ docDesc = None
    /\ stream = <<>> /\ ret = NoCall

SpecErrors == InitErrors /\ [][Next]_vars

\* children of the timelines of mixed rates: a clip at 24, a gap, a clip
\* whose Duration() fails, a clip at 30, a clip of no frames at a negative
\* rate, and a transition
RateCodes == {1, 3, 5, 6, 7, 8}

RateChild(code) ==
    CASE code \in {1, 3} -> ClipOrGap(code, 24)
      [] code = 5 -> ErrChild(5, 24)
      [] code = 6 -> ExternalClip(<<"c">>, <<"file:///c.mp4">>, 0, 1, 30)
      [] code = 7 -> [ExternalClip(<<"d">>, <<"file:///d.mp4">>, 0, 0, 24)
                         EXCEPT !.sourceRange.duration =
                                    [sn |-> 0, sd |-> 1,
                                     rate |-> [num |-> 0 - 24, den |-> 1]]]
      [] code = 8 -> TransitionOf(<<"t">>, <<"SMPTE_Dissolve">>, 1, 2, 24)

\* round trip of timelines of several video and audio tracks whose clips
\* have different rates
InitRates ==
    /\ pc = "start"
    /\ \E shape \in ShapesUpTo(RateCodes, MaxRateItems) :
          timeline = TimelineOf(<<"a">>, shape,
                                [c \in RateCodes |-> RateChild(c)])
    /\ str = None /\ escaped = None /\ unescaped = None
    /\ encoder = None /\ buf = None /\ decoder = None /\ decoded = None
    /\ encoder2 = None /\ buf2 = None /\ docDesc = None
    /\ writer = BytesBuffer /\ stream = <<>> /\ ret = NoCall

SpecRates == InitRates /\ [][Next]_vars

\* children of the timelines one Encoder encodes in turn: a clip at 24, a
\* gap and a clip at 30
ReuseCodes == {1, 3, 6}

ReuseTimelines ==
    {TimelineOf(<<"a">>, shape, [c \in ReuseCodes |-> RateChild(c)]) :
        shape \in ShapesUpTo(ReuseCodes, MaxReuseItems)}

InitReuse ==
    /\ pc = "start"
    /\ timeline \in ReuseTimelines
    /\ str = None /\ escaped = None /\ unescaped = None
    /\ encoder = None /\ buf = None /\ decoder = None /\ decoded = None
    /\ encoder2 = None /\ buf2 = None /\ docDesc = None
    /\ writer = BytesBuffer /\ stream = <<>> /\ ret = NoCall

EncodeAgainStep == \E tl \in ReuseTimelines : EncodeAgain(tl)

NextReuse == EncodeStep \/ EncodeAgainStep

\* several Encode calls on one Encoder
SpecReuse == InitReuse /\ [][NextReuse]_vars

\* track-type values of Track elements: video, audio and text
TrackElemTypes == {TrackTypeVideo, TrackTypeAudio, 8}

\* track-types bitmasks of clip elements: video, audio and both
ClipTrackTypes == {TrackTypeVideo, TrackTypeAudio, TrackTypeVideo + TrackTypeAudio}

\* the shapes of k layers that have at most n clip elements in all; an
\* element is its track-types
RECURSIVE LayerShapes(_, _)
LayerShapes(k, n) ==
    IF k = 0 THEN {<<>>}
    ELSE UNION {{<<es>> \o rest :
                    es \in StringsOfLen(ClipTrackTypes, l),
                    rest \in LayerShapes(k - 1, n - l)} :
                l \in 0..n}

\* the number of clip elements of the layers before layer l
RECURSIVE ElementsBefore(_, _)
ElementsBefore(shape, l) ==
    IF l = 1 THEN 0 ELSE ElementsBefore(shape, l - 1) + Len(shape[l - 1])

\* the start of element i of layer l: every element lasts 0.1 s and starts
\* at the end of the one before it, the first at 0 in the layers 1, 3, ...
\* and at 0.05 s in the layers 2, 4, ...
ShapeStart(l, i) ==
    (i - 1) * (GSTSecond \div 10) + (IF l % 2 = 0 THEN GSTSecond \div 20 ELSE 0)

\* the layers of a shape: GESUriClip elements with the ids 0, 1, 2, ... in
\* document order
LayersOfShape(shape) ==
    [l \in 1..Len(shape) |->
        [i \in 1..Len(shape[l]) |->
            XgesClip(ElementsBefore(shape, l) + i - 1, ClipTypeURI,
                     <<"file:///a.mp4">>, l - 1, shape[l][i],
                     ShapeStart(l, i), GSTSecond \div 10, 0, <<>>)]]

\* decoding of documents of several Track elements and several layers
InitCollapse ==
    /\ pc = "encoded"
    /\ \E tts \in StringsUpTo(TrackElemTypes, MaxTrackElems) :
          \E shape \in UNION {LayerShapes(k, MaxLayerItems - k) :
                                 k \in 0..MaxLayerItems} :
             /\ docDesc = [trackTypes |-> tts, layers |-> LayersOfShape(shape)]
             /\ buf = LayerDocument(tts, LayersOfShape(shape))
    /\ str = None /\ escaped = None /\ unescaped = None
    /\ timeline = None /\ encoder = None /\ decoder = None /\ decoded = None
    /\ encoder2 = None /\ buf2 = None
    /\ writer = BytesBuffer /\ stream = WholeStream /\ ret = NoCall

SpecCollapse == InitCollapse /\ [][NextDoc]_vars

NextOrder == DecodeInOrderStep \/ ReEncodeStep

\* decoding of the same documents under every order of the map walks
SpecOrder == InitCollapse /\ [][NextOrder]_vars

\* durations of hand-written transition elements, in nanoseconds: odd and
\* even, from 1 ns to half a second; 15 / 1e9 * 1e9 is below 15 in float64
TransitionDurations == {1, 3, 15, 41666667, 100000001, 500000000}

\* the layer of contiguous transition elements of the given [assetID,
\* duration], n of them
RECURSIVE HalvesLayers(_)
HalvesLayers(n) ==
    IF n = 0 THEN {<<>>}
    ELSE {Append(l, XgesClip(Len(l), ClipTypeTransition, a, 0, TrackTypeVideo,
                             IF l = <<>> THEN 0
                             ELSE l[Len(l)].start + l[Len(l)].duration,
                             d, 0, <<>>)) :
            l \in HalvesLayers(n - 1), a \in {<<"crossfade">>, <<"wipe">>},
            d \in TransitionDurations}

\* decoding and encoding again of transition elements of many durations
InitHalves ==
    /\ pc = "encoded"
    /\ \E n \in 0..MaxHalfClips : \E l \in HalvesLayers(n) :
          /\ docDesc = [clips |-> l]
          /\ buf = LayerDocument(<<TrackTypeVideo>>, <<l>>)
    /\ str = None /\ escaped = None /\ unescaped = None
    /\ timeline = None /\ encoder = None /\ decoder = None /\ decoded = None
    /\ encoder2 = None /\ buf2 = None
    /\ writer = BytesBuffer /\ stream = WholeStream /\ ret = NoCall

SpecHalves == InitHalves /\ [][NextDoc]_vars

\* a title clip of two frames whose xges metadata holds the text only
TitleClip(text) ==
    [type |-> "Clip", name |-> <<"a">>,
     ref |-> [variant |-> "GeneratorReference", kind |-> <<"title">>],
     sourceRange |-> [start |-> NewRationalTime(0, 24),
                      duration |-> NewRationalTime(2, 24)],
     metadata |-> [k \in {"text"} |-> text]]

\* round trip of a title clip with every non-empty text up to MaxTextLen
InitTitles ==
    /\ pc = "start"
    /\ \E text \in StringsUpTo(NameChars, MaxTextLen) \ {<<>>} :
          timeline = [name |-> <<"a">>,
                      tracks |-> <<[kind |-> "Video",
                                    children |-> <<TitleClip(text)>>]>>]
    /\ str = None /\ escaped = None /\ unescaped = None
    /\ encoder = None /\ buf = None /\ decoder = None /\ decoded = None
    /\ encoder2 = None /\ buf2 = None /\ docDesc = None
    /\ writer = BytesBuffer /\ stream = <<>> /\ ret = NoCall

SpecTitles == InitTitles /\ [][Next]_vars

\* the type-name and asset-id of the elements of SpecStarts: a URI clip, a
\* transition and an element of an unknown type-name
StartKinds ==
    {[typeName |-> ClipTypeURI, assetID |-> <<"file:///a.mp4">>],
     [typeName |-> ClipTypeTransition, assetID |-> <<"crossfade">>],
     [typeName |-> <<"GESEffectClip">>, assetID |-> <<"agingtv">>]}

\* durations of the elements of SpecStarts, in nanoseconds; 15 / 1e9 * 1e9
\* is below 15 in float64
StartDurations == {15, GSTSecond \div 20}

\* where an element starts relative to the one before it
StartTimings == {"overlap", "contiguous", "short gap", "gap"}

\* the start of the element that follows the elements of layer l: at the
\* start of the one before it, at its end, 15 ns or 0.1 s after its end; the
\* first at 0, at 15 ns or at 0.1 s
StartAfter(l, timing) ==
    LET gap == CASE timing = "short gap" -> 15
                 [] timing = "gap" -> GSTSecond \div 10
                 [] OTHER -> 0
    IN  IF l = <<>> THEN gap
        ELSE IF timing = "overlap" THEN l[Len(l)].start
        ELSE l[Len(l)].start + l[Len(l)].duration + gap

\* the layers of n clip elements in non-decreasing start order
RECURSIVE StartLayers(_)
StartLayers(n) ==
    IF n = 0 THEN {<<>>}
    ELSE {Append(l, XgesClip(Len(l), k.typeName, k.assetID, 0, TrackTypeVideo,
                             StartAfter(l, t), d, 0, <<>>)) :
            l \in StartLayers(n - 1), k \in StartKinds, d \in StartDurations,
            t \in StartTimings}

\* decoding and re-encoding of one layer of elements that overlap, touch or
\* leave gaps
InitStarts ==
    /\ pc = "encoded"
    /\ \E n \in 0..MaxStartClips : \E l \in StartLayers(n) :
          /\ docDesc = [clips |-> l]
          /\ buf = LayerDocument(<<TrackTypeVideo>>, <<l>>)
    /\ str = None /\ escaped = None /\ unescaped = None
    /\ timeline = None /\ encoder = None /\ decoder = None /\ decoded = None
    /\ encoder2 = None /\ buf2 = None
    /\ writer = BytesBuffer /\ stream = WholeStream /\ ret = NoCall

SpecStarts == InitStarts /\ [][NextDoc]_vars

\* the type-names the decoder knows
ClipTypes == {ClipTypeURI, ClipTypeTest, ClipTypeTitle, ClipTypeTransition}

\* asset-ids of hand-written elements: none, a URI, generator kinds, a
\* transition tag and the title tag
TypeAssetIDs ==
    {<<>>, <<"file:///a.mp4">>, <<"bars">>, <<"title">>, <<"crossfade">>,
     ClipTypeTitle}

\* the layers of n contiguous elements of 0.1 s of every type-name and
\* asset-id
RECURSIVE TypeLayers(_)
TypeLayers(n) ==
    IF n = 0 THEN {<<>>}
    ELSE {Append(l, XgesClip(Len(l), ty, a, 0, TrackTypeVideo,
                             Len(l) * (GSTSecond \div 10), GSTSecond \div 10,
                             0, <<>>)) :
            l \in TypeLayers(n - 1), ty \in ClipTypes, a \in TypeAssetIDs}

\* decoding and re-encoding of elements of every type-name and asset-id
InitTypes ==
    /\ pc = "encoded"
    /\ \E n \in 0..MaxTypeClips : \E l \in TypeLayers(n) :
          /\ docDesc = [clips |-> l]
          /\ buf = LayerDocument(<<TrackTypeVideo>>, <<l>>)
    /\ str = None /\ escaped = None /\ unescaped = None
    /\ timeline = None /\ encoder = None /\ decoder = None /\ decoded = None
    /\ encoder2 = None /\ buf2 = None
    /\ writer = BytesBuffer /\ stream = WholeStream /\ ret = NoCall

SpecTypes == InitTypes /\ [][NextDoc]_vars

\* the characters of a hand-written field of a structure string
FieldChars == {DQ, BS, SP, CM, SC, "a"}

\* a document of one GESTitleClip element whose properties hold the given
\* text after name=(string) and whose children-properties hold it after
\* text=(string); without the key the text follows "properties, " directly
FieldDocument(value, keyed) ==
    LayerDocument(<<TrackTypeVideo>>,
        <<<<[XgesClip(0, ClipTypeTitle, ClipTypeTitle, 0, TrackTypeVideo, 0,
                      GSTSecond \div 10, 0,
                      <<"properties", CM, SP>>
                      \o (IF keyed THEN <<"text=(string)">> ELSE <<>>) \o value)
               EXCEPT !.properties =
                        <<"properties", CM, SP>>
                        \o (IF keyed THEN <<"name=(string)">> ELSE <<>>)
                        \o value]>>>>)

\* decoding of hand-written name and text fields
InitFields ==
    /\ pc = "encoded"
    /\ \E value \in StringsUpTo(FieldChars, MaxValueLen), keyed \in BOOLEAN :
          /\ docDesc = [value |-> value, keyed |-> keyed]
          /\ buf = FieldDocument(value, keyed)
    /\ str = None /\ escaped = None /\ unescaped = None
    /\ timeline = None /\ encoder = None /\ decoder = None /\ decoded = None
    /\ encoder2 = None /\ buf2 = None
    /\ writer = BytesBuffer /\ stream = WholeStream /\ ret = NoCall

SpecFields == InitFields /\ [][NextDoc]_vars

-----------------------------------------------------------------------------
(* Helpers of the properties.                                              *)

Range(s) == {s[i] : i \in 1..Len(s)}

TracksOfKind(tl, kind) == SelectSeq(tl.tracks, LAMBDA tr : tr.kind = kind)

ClipCount(children) == Len(SelectSeq(children, LAMBDA c : c.type = "Clip"))

RECURSIVE SumClipCounts(_)
SumClipCounts(tracks) ==
    IF tracks = <<>> THEN 0
    ELSE ClipCount(Head(tracks).children) + SumClipCounts(Tail(tracks))

\* all clip elements of a document, layer after layer
RECURSIVE FlatClips(_)
FlatClips(layers) ==
    IF layers = <<>> THEN <<>> ELSE Head(layers).clips \o FlatClips(Tail(layers))

DocLayers(ges) == ges.project.timeline.layers

\* nanoseconds a child occupies on the encoder's cursor
ChildNs(child) ==
    IF child.type = "Transition"
    THEN toNanoseconds(AddTime(child.inOffset, child.outOffset))
    ELSE toNanoseconds(ChildDuration(child))

\* nanoseconds of the children i..j
RECURSIVE SpanNs(_, _, _)
SpanNs(children, i, j) ==
    IF i > j THEN 0 ELSE ChildNs(children[i]) + SpanNs(children, i + 1, j)

\* the timeline has at most one video track and at most one audio track
OneTrackPerKind(tl) ==
    Len(TracksOfKind(tl, "Video")) <= 1 /\ Len(TracksOfKind(tl, "Audio")) <= 1

\* the layer Encode writes for the i-th track of a kind
LayerOf(ges, tl, kind, i) ==
    DocLayers(ges)[IF kind = "Video" THEN i ELSE Len(TracksOfKind(tl, "Video")) + i]

Kinds == {"Video", "Audio"}

-----------------------------------------------------------------------------
(* C1 (as stated): Decode of Encode's output has as many video tracks, as  *)
(* many audio tracks and in each track as many clips as the original,      *)
(* for any number of tracks.                                               *)
C1_CountsPreserved ==
    pc = "decoded" =>
        \A kind \in Kinds :
            LET src == TracksOfKind(timeline, kind)
                dst == TracksOfKind(decoded, kind)
            IN  /\ Len(dst) = Len(src)
                /\ \A i \in 1..Len(src) :
                      ClipCount(dst[i].children) = ClipCount(src[i].children)

(* C1 (amended): Decode of Encode's output has one track of a kind when    *)
(* the original has one or more tracks of that kind and none otherwise,    *)
(* and that track holds as many clips as all the original tracks of the    *)
(* kind together; so the counts are preserved when the original has at     *)
(* most one track of each kind.                                            *)
C1_CountsCollapsedPerKind ==
    pc = "decoded" =>
        \A kind \in Kinds :
            LET src == TracksOfKind(timeline, kind)
                dst == TracksOfKind(decoded, kind)
            IN  /\ Len(dst) = (IF Len(src) >= 1 THEN 1 ELSE 0)
                /\ Len(src) >= 1 =>
                      ClipCount(dst[1].children) = SumClipCounts(src)
                /\ Len(decoded.tracks) =
                      Len(TracksOfKind(decoded, "Video"))
                      + Len(TracksOfKind(decoded, "Audio"))

\* two video tracks with a clip each and an audio track were round-tripped
C1_Witness ==
    /\ pc = "decoded"
    /\ Len(TracksOfKind(timeline, "Video")) = 2
    /\ Len(TracksOfKind(timeline, "Audio")) = 1
    /\ \A i \in 1..2 : ClipCount(TracksOfKind(timeline, "Video")[i].children) = 1
    /\ Len(TracksOfKind(decoded, "Video")) = 1
    /\ ClipCount(TracksOfKind(decoded, "Video")[1].children) = 2

-----------------------------------------------------------------------------
(* C3 (as stated): through Encode, Decode, Encode every clip element keeps *)
(* its asset-id, start, duration and inpoint.                              *)
C3_ElementsPreserved ==
    pc = "reencoded" =>
        LET f1 == FlatClips(DocLayers(buf))
            f2 == FlatClips(DocLayers(buf2))
        IN  /\ Len(f1) = Len(f2)
            /\ \A i \in 1..Len(f1) :
                  /\ f2[i].assetID = f1[i].assetID
                  /\ f2[i].start = f1[i].start
                  /\ f2[i].duration = f1[i].duration
                  /\ f2[i].inpoint = f1[i].inpoint

(* C3 (amended): through Encode, Decode, Encode every clip element keeps   *)
(* its asset-id, duration and inpoint, and it keeps its start when the     *)
(* timeline has at most one track of each kind.                            *)
C3_ElementsPreservedOnePerKind ==
    pc = "reencoded" =>
        LET f1 == FlatClips(DocLayers(buf))
            f2 == FlatClips(DocLayers(buf2))
        IN  /\ Len(f1) = Len(f2)
            /\ \A i \in 1..Len(f1) :
                  /\ f2[i].assetID = f1[i].assetID
                  /\ f2[i].duration = f1[i].duration
                  /\ f2[i].inpoint = f1[i].inpoint
                  /\ OneTrackPerKind(timeline) => f2[i].start = f1[i].start

\* a track Clip, Gap, Clip was encoded, decoded and encoded again, and the
\* second clip sits after the gap both times
C3_Witness ==
    /\ pc = "reencoded"
    /\ Len(timeline.tracks) = 1
    /\ Len(timeline.tracks[1].children) = 3
    /\ timeline.tracks[1].children[1].type = "Clip"
    /\ timeline.tracks[1].children[2].type = "Gap"
    /\ timeline.tracks[1].children[3].type = "Clip"
    /\ FlatClips(DocLayers(buf2))[2].start
          = SpanNs(timeline.tracks[1].children, 1, 2)
    /\ FlatClips(DocLayers(buf2))[2].inpoint > 0

-----------------------------------------------------------------------------
(* Gaps.                                                                   *)

NonGapCount(children) == Len(SelectSeq(children, LAMBDA c : c.type # "Gap"))

GapCount(children) == Len(SelectSeq(children, LAMBDA c : c.type = "Gap"))

\* children[i..j] is a maximal run of Gaps
IsGapRun(children, i, j) ==
    /\ 1 <= i /\ i <= j /\ j <= Len(children)
    /\ \A k \in i..j : children[k].type = "Gap"
    /\ i > 1 => children[i - 1].type # "Gap"
    /\ j < Len(children) => children[j + 1].type # "Gap"

GapRuns(children) ==
    {r \in (1..Len(children)) \X (1..Len(children)) : IsGapRun(children, r[1], r[2])}

\* a Gap of d nanoseconds lies p nanoseconds into the track
HasGapAt(children, p, d) ==
    \E m \in 1..Len(children) :
        /\ children[m].type = "Gap"
        /\ toNanoseconds(children[m].duration) = d
        /\ SpanNs(children, 1, m - 1) = p

(* C4 (as stated): every Gap of duration D > 0 at position P of a track,   *)
(* leading, between two elements or trailing, gets no clip element, the    *)
(* next element is placed at P + D, and Decode rebuilds a Gap of duration  *)
(* D at position P of the track.                                           *)
C4_GapLaw ==
    pc = "decoded" =>
        \A kind \in Kinds :
            LET src == TracksOfKind(timeline, kind)
                dst == TracksOfKind(decoded, kind)
            IN  \A i \in 1..Len(src) :
                    LET ch    == src[i].children
                        layer == LayerOf(buf, timeline, kind, i)
                    IN  \A j \in 1..Len(ch) :
                            ch[j].type = "Gap" /\ ChildNs(ch[j]) > 0 =>
                                LET P == SpanNs(ch, 1, j - 1)
                                    D == ChildNs(ch[j])
                                IN  /\ Len(layer.clips) = NonGapCount(ch)
                                    /\ (j < Len(ch) /\ ch[j + 1].type # "Gap") =>
                                          layer.clips[NonGapCount(SubSeq(ch, 1, j + 1))].start
                                             = P + D
                                    /\ i <= Len(dst)
                                    /\ HasGapAt(dst[i].children, P, D)

(* C4 (amended): in a track that is the only track of its kind, every      *)
(* maximal run of Gaps of total duration D > 0 at position P that is       *)
(* followed by a Clip gets no clip element, the Clip is placed at P + D,   *)
(* and Decode rebuilds one Gap of duration D at position P; a trailing run *)
(* of Gaps is dropped, so the decoded track has one Gap per run that a     *)
(* Clip follows and no other.                                              *)
C4_GapRunLaw ==
    pc = "decoded" =>
        \A kind \in Kinds :
            LET src == TracksOfKind(timeline, kind)
                dst == TracksOfKind(decoded, kind)
            IN  Len(src) = 1 =>
                    LET ch    == src[1].children
                        layer == LayerOf(buf, timeline, kind, 1)
                        inner == {r \in GapRuns(ch) : r[2] < Len(ch)}
                    IN  /\ Len(layer.clips) = NonGapCount(ch)
                        /\ Len(dst) = 1
                        /\ GapCount(dst[1].children) = Cardinality(inner)
                        /\ \A r \in inner :
                              LET P == SpanNs(ch, 1, r[1] - 1)
                                  D == SpanNs(ch, r[1], r[2])
                              IN  /\ D > 0
                                  /\ layer.clips[NonGapCount(SubSeq(ch, 1, r[2] + 1))].start
                                        = P + D
                                  /\ HasGapAt(dst[1].children, P, D)

\* a track Clip, Gap, Gap, Clip was round-tripped: the two gaps came back as
\* one Gap between the clips
C4_Witness ==
    /\ pc = "decoded"
    /\ Len(timeline.tracks) = 1
    /\ Len(timeline.tracks[1].children) = 4
    /\ \A j \in 1..4 : timeline.tracks[1].children[j].type
                          = <<"Clip", "Gap", "Gap", "Clip">>[j]
    /\ Len(decoded.tracks[1].children) = 3
    /\ decoded.tracks[1].children[2].type = "Gap"
    /\ toNanoseconds(decoded.tracks[1].children[2].duration)
          = SpanNs(timeline.tracks[1].children, 2, 3)

-----------------------------------------------------------------------------
(* The escaping functions.                                                 *)

\* the character-by-character encoding: a backslash before each backslash,
\* double quote, space and comma
RECURSIVE CharWiseEscape(_)
CharWiseEscape(s) ==
    IF s = <<>> THEN <<>>
    ELSE (IF Head(s) \in {BS, DQ, SP, CM} THEN <<BS, Head(s)>> ELSE <<Head(s)>>)
         \o CharWiseEscape(Tail(s))

(* C5: unescapeGstString(escapeGstString(s)) = s for every string over     *)
(* backslash, double quote, space, comma and alphanumerics.                *)
C5_UnescapeInvertsEscape ==
    pc = "unescaped" => unescaped = str

(* C6: escapeGstString(s) is the character-by-character encoding of s; no  *)
(* backslash that escaping introduces is escaped again.                    *)
C6_EscapeIsCharWise ==
    pc \in {"escaped", "unescaped"} => escaped = CharWiseEscape(str)

\* a string with a backslash and a double quote was escaped: two characters
\* became four
C6_Witness ==
    /\ pc = "escaped"
    /\ str = <<DQ, BS>>
    /\ escaped = <<BS, DQ, BS, BS>>

-----------------------------------------------------------------------------
(* Names.                                                                  *)

(* C2: Decode of Encode's output keeps the timeline name and every clip's  *)
(* name, for every name over backslash, double quote, space, comma and     *)
(* alphanumerics.                                                          *)
C2_NamesPreserved ==
    pc = "decoded" =>
        /\ decoded.name = timeline.name
        /\ \A i \in 1..Len(timeline.tracks) :
              \A j \in 1..Len(timeline.tracks[i].children) :
                  timeline.tracks[i].children[j].type = "Clip" =>
                      /\ i <= Len(decoded.tracks)
                      /\ j <= Len(decoded.tracks[i].children)
                      /\ decoded.tracks[i].children[j].name
                            = timeline.tracks[i].children[j].name

-----------------------------------------------------------------------------
(* Frame rate of the decoder.                                              *)

\* two rates are the same number
RateEq(r1, r2) == r1.num * r2.den = r2.num * r1.den

\* the Track descriptions that state a usable rate: a video Track whose
\* restriction-caps hold a framerate with a positive value and a non-zero
\* denominator
UsableRates(descs) ==
    SelectSeq(descs, LAMBDA d : /\ d.trackType = TrackTypeVideo
                                /\ d.form \in {"quoted", "bare"}
                                /\ d.num > 0 /\ d.den # 0)

(* C7: after Decode the decoder's rate is num/den of the first video Track *)
(* element whose restriction-caps contain framerate=(fraction)num/den with *)
(* a positive value and a non-zero denominator, and 25 when there is none. *)
C7_DecoderRate ==
    (pc \in {"decoded", "reencoded"}) =>
        LET u == UsableRates(docDesc.tracks)
        IN  IF u # <<>> THEN RateEq(decoder.rate, [num |-> u[1].num, den |-> u[1].den])
            ELSE RateEq(decoder.rate, [num |-> 25, den |-> 1])

\* the first video Track has a zero denominator, the second says 24000/1001,
\* and the decoder took the second
C7_Witness ==
    /\ pc = "decoded"
    /\ Len(docDesc.tracks) = 2
    /\ docDesc.tracks[1] = [trackType |-> TrackTypeVideo, form |-> "quoted",
                            num |-> 30, den |-> 0]
    /\ docDesc.tracks[2] = [trackType |-> TrackTypeVideo, form |-> "quoted",
                            num |-> 24000, den |-> 1001]
    /\ decoder.rate = [num |-> 24000, den |-> 1001]

\* the framerate field of a timeline metadatas string
MetadatasFramerate(metadatas) == FindFramerate(metadatas, 1)

(* C8 (as stated): the frame rate travels in the timeline metadatas under  *)
(* key framerate in both directions: Encode writes the inferred rate       *)
(* there, and Decode reads its rate from there, so a document whose        *)
(* timeline metadatas say framerate=(fraction)30/1 is decoded at rate 30.  *)
C8_RateInTimelineMetadatas ==
    /\ (pc = "reencoded") =>
          LET f == MetadatasFramerate(buf2.project.timeline.metadatas)
          IN  f.found /\ RateEq([num |-> f.num, den |-> f.den], encoder2.rate)
    /\ (pc \in {"decoded", "reencoded"}) =>
          LET f == MetadatasFramerate(buf.project.timeline.metadatas)
          IN  f.found => RateEq(decoder.rate, [num |-> f.num, den |-> f.den])

(* C8 (amended): Encode writes the whole part of the inferred rate, over   *)
(* 1, into the timeline metadatas under key framerate; Decode does not     *)
(* read the timeline metadatas: its rate comes from the restriction-caps   *)
(* of the video Track elements, so a document whose timeline metadatas say *)
(* framerate=(fraction)30/1 and whose video Tracks state no usable rate is *)
(* decoded at the default 25.                                              *)
C8_RateWrittenNotRead ==
    /\ (pc = "reencoded") =>
          LET f == MetadatasFramerate(buf2.project.timeline.metadatas)
          IN  /\ f.found
              /\ f.den = 1
              /\ f.num = encoder2.rate.num \div encoder2.rate.den
    /\ (pc \in {"decoded", "reencoded"}) =>
          (UsableRates(docDesc.tracks) = <<>> =>
              decoder.rate = [num |-> 25, den |-> 1])

\* the timeline metadatas said 30/1, the only video Track stated no rate:
\* decoded at 25, the clip came back at 25, and 25/1 was written
C8_Witness ==
    /\ pc = "reencoded"
    /\ docDesc.metaRate = 30
    /\ Len(docDesc.tracks) = 1
    /\ docDesc.tracks[1].trackType = TrackTypeVideo
    /\ docDesc.tracks[1].form = "capsonly"
    /\ decoder.rate = [num |-> 25, den |-> 1]
    /\ encoder2.rate = [num |-> 25, den |-> 1]
    /\ MetadatasFramerate(buf2.project.timeline.metadatas).num = 25

-----------------------------------------------------------------------------
(* Transition types.                                                       *)

\* the clip element Encode wrote for child j of the only track
ElementOfChild(ges, tl, j) ==
    DocLayers(ges)[1].clips[NonGapCount(SubSeq(tl.tracks[1].children, 1, j))]

TransitionChildren(tl) ==
    {j \in 1..Len(tl.tracks[1].children) :
        tl.tracks[1].children[j].type = "Transition"}

(* C9: Encode maps SMPTE_Dissolve to crossfade, SMPTE_Wipe to wipe,        *)
(* SMPTE_ClockWipe to clock-wipe, SMPTE_BarWipe to barwipe, SMPTE_BoxWipe  *)
(* to box-wipe, and the empty type and the custom tag to crossfade.        *)
C9_TransitionAssetIDs ==
    pc = "encoded" =>
        \A j \in TransitionChildren(timeline) :
            LET ty == timeline.tracks[1].children[j].transitionType
                e  == ElementOfChild(buf, timeline, j)
            IN  /\ e.typeName = <<"GESTransitionClip">>
                /\ ty = <<"SMPTE_Dissolve">> => e.assetID = <<"crossfade">>
                /\ ty = <<"SMPTE_Wipe">> => e.assetID = <<"wipe">>
                /\ ty = <<"SMPTE_ClockWipe">> => e.assetID = <<"clock-wipe">>
                /\ ty = <<"SMPTE_BarWipe">> => e.assetID = <<"barwipe">>
                /\ ty = <<"SMPTE_BoxWipe">> => e.assetID = <<"box-wipe">>
                /\ ty = <<>> => e.assetID = <<"crossfade">>
                /\ ty = <<"Custom_Transition">> => e.assetID = <<"crossfade">>

\* a clip, then a box wipe, then a transition of the empty type were encoded
C9_Witness ==
    /\ pc = "encoded"
    /\ Len(timeline.tracks[1].children) = 2
    /\ timeline.tracks[1].children[1].type = "Transition"
    /\ timeline.tracks[1].children[1].transitionType = <<"SMPTE_BoxWipe">>
    /\ timeline.tracks[1].children[2].type = "Transition"
    /\ timeline.tracks[1].children[2].transitionType = <<>>
    /\ DocLayers(buf)[1].clips[1].assetID = <<"box-wipe">>
    /\ DocLayers(buf)[1].clips[2].assetID = <<"crossfade">>

RecognizedTransitionTypes ==
    {<<"SMPTE_Dissolve">>, <<"SMPTE_Wipe">>, <<"SMPTE_ClockWipe">>,
     <<"SMPTE_BarWipe">>, <<"SMPTE_BoxWipe">>, <<>>, <<"Custom_Transition">>}

(* C10 (as stated): a Transition whose type is unrecognized is encoded     *)
(* with asset-id crossfade.                                                *)
C10_UnrecognizedIsCrossfade ==
    pc = "encoded" =>
        \A j \in TransitionChildren(timeline) :
            timeline.tracks[1].children[j].transitionType
                \notin RecognizedTransitionTypes =>
                    ElementOfChild(buf, timeline, j).assetID = <<"crossfade">>

(* C10 (amended): a Transition whose type is unrecognized is encoded with  *)
(* the type string itself as asset-id.                                     *)
C10_UnrecognizedIsKept ==
    pc = "encoded" =>
        \A j \in TransitionChildren(timeline) :
            timeline.tracks[1].children[j].transitionType
                \notin RecognizedTransitionTypes =>
                    ElementOfChild(buf, timeline, j).assetID
                        = timeline.tracks[1].children[j].transitionType

\* a transition of an unrecognized type was encoded after a clip
C10_Witness ==
    /\ pc = "encoded"
    /\ Len(timeline.tracks[1].children) = 2
    /\ timeline.tracks[1].children[1].type = "Clip"
    /\ timeline.tracks[1].children[2].type = "Transition"
    /\ timeline.tracks[1].children[2].transitionType = <<"MyFancyWipe">>
    /\ DocLayers(buf)[1].clips[2].assetID = <<"MyFancyWipe">>
    /\ DocLayers(buf)[1].clips[2].typeName = <<"GESTransitionClip">>

-----------------------------------------------------------------------------
(* Transition asset-ids on decode.                                         *)

\* the spellings of the five known asset-ids, by the type they stand for
KnownAssetIDs ==
    [ty \in {<<"SMPTE_Dissolve">>, <<"SMPTE_Wipe">>, <<"SMPTE_ClockWipe">>,
             <<"SMPTE_BarWipe">>, <<"SMPTE_BoxWipe">>} |->
        CASE ty = <<"SMPTE_Dissolve">> ->
               {<<"crossfade">>, <<"Crossfade">>, <<"CROSSFADE">>, <<"cRoSsFaDe">>}
          [] ty = <<"SMPTE_Wipe">> -> {<<"wipe">>, <<"Wipe">>, <<"WIPE">>}
          [] ty = <<"SMPTE_ClockWipe">> ->
               {<<"clock-wipe">>, <<"Clock-Wipe">>, <<"CLOCK-WIPE">>}
          [] ty = <<"SMPTE_BarWipe">> -> {<<"barwipe">>, <<"BarWipe">>, <<"BARWIPE">>}
          [] ty = <<"SMPTE_BoxWipe">> ->
               {<<"box-wipe">>, <<"Box-Wipe">>, <<"BOX-WIPE">>}]

(* C11: Decode maps a Transition element's asset-id to the type without    *)
(* regard to letter case (crossfade, wipe, clock-wipe, barwipe, box-wipe), *)
(* and any other asset-id becomes the type, with the case it was written   *)
(* in.                                                                     *)
C11_AssetIDToType ==
    pc = "decoded" =>
        /\ Len(decoded.tracks) = 1
        /\ Len(decoded.tracks[1].children) = Len(docDesc.ids)
        /\ \A i \in 1..Len(docDesc.ids) :
              LET child == decoded.tracks[1].children[i]
                  id    == docDesc.ids[i]
              IN  /\ child.type = "Transition"
                  /\ \A ty \in DOMAIN KnownAssetIDs :
                        id \in KnownAssetIDs[ty] => child.transitionType = ty
                  /\ (\A ty \in DOMAIN KnownAssetIDs : id \notin KnownAssetIDs[ty])
                        => child.transitionType = id

\* BARWIPE and then MyFancyWipe were decoded
C11_Witness ==
    /\ pc = "decoded"
    /\ docDesc.ids = <<<<"BARWIPE">>, <<"MyFancyWipe">>>>
    /\ decoded.tracks[1].children[1].transitionType = <<"SMPTE_BarWipe">>
    /\ decoded.tracks[1].children[2].transitionType = <<"MyFancyWipe">>

-----------------------------------------------------------------------------
(* The decoder's cursor.                                                   *)

\* the cursor after element i of a layer: 0 before the first element
CursorAfter(elems, i) == IF i = 0 THEN 0 ELSE elems[i].start + elems[i].duration

\* element i starts after the cursor
StartsLate(elems, i) == elems[i].start > CursorAfter(elems, i - 1)

\* where the child converted from element i sits in the track
ChildIndex(elems, i) == i + Cardinality({j \in 1..i : StartsLate(elems, j)})

\* the child is what element e was converted to
ConvertedFrom(child, e) ==
    IF e.typeName \in {ClipTypeURI, ClipTypeTest, ClipTypeTitle, ClipTypeTransition}
    THEN child.type # "Gap" /\ child.name = <<"e">> \o Digits(e.id)
    ELSE child.type = "Gap" /\ toNanoseconds(child.duration) = e.duration

(* C12: a group of clip elements in non-decreasing start order is walked   *)
(* with a cursor from 0: a Gap of element.start - cursor comes before an   *)
(* element exactly when element.start > cursor, then the converted         *)
(* element, and the cursor becomes element.start + element.duration.       *)
C12_CursorWalk ==
    pc = "decoded" =>
        LET elems == docDesc.clips
            ch    == decoded.tracks[1].children
        IN  /\ Len(ch) = ChildIndex(elems, Len(elems))
            /\ \A i \in 1..Len(elems) :
                  LET k == ChildIndex(elems, i)
                  IN  /\ ConvertedFrom(ch[k], elems[i])
                      /\ StartsLate(elems, i) =>
                            /\ ch[k - 1].type = "Gap"
                            /\ toNanoseconds(ch[k - 1].duration)
                                  = elems[i].start - CursorAfter(elems, i - 1)
                      /\ (~StartsLate(elems, i) /\ i > 1) =>
                            ConvertedFrom(ch[k - 1], elems[i - 1])

\* B.start = 1_500_000_000 after A(0, 1_000_000_000): one Gap of
\* 500_000_000 ns between the two clips
C12_Witness ==
    /\ pc = "decoded"
    /\ Len(docDesc.clips) = 2
    /\ docDesc.clips[1].typeName = ClipTypeURI
    /\ docDesc.clips[1].start = 0
    /\ docDesc.clips[1].duration = 1000000000
    /\ docDesc.clips[2].typeName = ClipTypeURI
    /\ docDesc.clips[2].start = 1500000000
    /\ Len(decoded.tracks[1].children) = 3
    /\ decoded.tracks[1].children[1].type = "Clip"
    /\ decoded.tracks[1].children[2].type = "Gap"
    /\ toNanoseconds(decoded.tracks[1].children[2].duration) = 500000000
    /\ decoded.tracks[1].children[3].type = "Clip"

-----------------------------------------------------------------------------
(* The decoder's dispatch on type-name.                                    *)

\* child is what the type-name of element e asks for, a test clip getting
\* the generator kind testKind
DispatchedAs(child, e, testKind) ==
    CASE e.typeName = ClipTypeURI ->
           /\ child.type = "Clip"
           /\ child.ref = [variant |-> "ExternalReference", url |-> e.assetID]
      [] e.typeName = ClipTypeTest ->
           /\ child.type = "Clip"
           /\ child.ref = [variant |-> "GeneratorReference", kind |-> testKind]
      [] e.typeName = ClipTypeTitle ->
           /\ child.type = "Clip"
           /\ child.ref = [variant |-> "GeneratorReference", kind |-> <<"title">>]
      [] e.typeName = ClipTypeTransition -> child.type = "Transition"
      [] OTHER ->
           /\ child.type = "Gap"
           /\ toNanoseconds(child.duration) = e.duration

\* Decode returned a timeline and no error, and every element of the layer
\* has its child in the track
AllConverted ==
    /\ ret = [call |-> "Decode", value |-> "timeline", err |-> "nil"]
    /\ Len(decoded.tracks) = 1
    /\ Len(decoded.tracks[1].children)
          = ChildIndex(docDesc.clips, Len(docDesc.clips))

(* C14 (as stated): Decode dispatches on the type-name only: GESUriClip    *)
(* gives an ExternalReference clip whose URL is the asset-id, GESTestClip  *)
(* a GeneratorReference clip whose kind is the asset-id, GESTitleClip one  *)
(* of kind title, GESTransitionClip a Transition, any other type-name a    *)
(* Gap of the element's duration; the call does not fail and the elements  *)
(* after an unknown one are converted with the cursor past it.             *)
C14_Dispatch ==
    pc = "decoded" =>
        /\ AllConverted
        /\ \A i \in 1..Len(docDesc.clips) :
              DispatchedAs(decoded.tracks[1].children[ChildIndex(docDesc.clips, i)],
                           docDesc.clips[i], docDesc.clips[i].assetID)

(* C14 (amended): as stated, except that a GESTestClip element whose       *)
(* asset-id is empty gives a GeneratorReference clip of kind black.        *)
C14_DispatchBlackDefault ==
    pc = "decoded" =>
        /\ AllConverted
        /\ \A i \in 1..Len(docDesc.clips) :
              DispatchedAs(decoded.tracks[1].children[ChildIndex(docDesc.clips, i)],
                           docDesc.clips[i],
                           IF docDesc.clips[i].assetID = <<>> THEN <<"black">>
                           ELSE docDesc.clips[i].assetID)

\* an element of an unknown type-name and a test clip right after it were
\* decoded: a Gap of the unknown element's duration, then the clip
C14_Witness ==
    /\ pc = "decoded"
    /\ Len(docDesc.clips) = 2
    /\ docDesc.clips[1].typeName = <<"GESEffectClip">>
    /\ docDesc.clips[1].start = 0
    /\ docDesc.clips[2].typeName = ClipTypeTest
    /\ docDesc.clips[2].assetID = <<"bars">>
    /\ docDesc.clips[2].start = docDesc.clips[1].duration
    /\ ret.err = "nil"
    /\ Len(decoded.tracks[1].children) = 2
    /\ decoded.tracks[1].children[1].type = "Gap"
    /\ toNanoseconds(decoded.tracks[1].children[1].duration) = docDesc.clips[1].duration
    /\ decoded.tracks[1].children[2].ref.kind = <<"bars">>

-----------------------------------------------------------------------------
(* The encoder's classification of clips.                                  *)

(* C13: Encode classifies a Clip by its media reference: ExternalReference *)
(* gives GESUriClip with asset-id the URL, or file:///missing when the URL *)
(* is empty; GeneratorReference of kind title gives GESTitleClip with      *)
(* asset-id GESTitleClip; of any other kind GESTestClip with asset-id the  *)
(* kind, or black when the kind is empty; no reference or another variant  *)
(* gives GESUriClip with asset-id file:///missing.                         *)
C13_Classification ==
    pc = "encoded" =>
        /\ Len(DocLayers(buf)) = 1
        /\ Len(DocLayers(buf)[1].clips) = Len(timeline.tracks[1].children)
        /\ \A j \in 1..Len(timeline.tracks[1].children) :
              LET ref == timeline.tracks[1].children[j].ref
                  e   == DocLayers(buf)[1].clips[j]
              IN  CASE ref.variant = "ExternalReference" ->
                         /\ e.typeName = <<"GESUriClip">>
                         /\ e.assetID = (IF ref.url = <<>> THEN <<"file:///missing">>
                                         ELSE ref.url)
                    [] ref.variant = "GeneratorReference" /\ ref.kind = <<"title">> ->
                         /\ e.typeName = <<"GESTitleClip">>
                         /\ e.assetID = <<"GESTitleClip">>
                    [] ref.variant = "GeneratorReference" /\ ref.kind # <<"title">> ->
                         /\ e.typeName = <<"GESTestClip">>
                         /\ e.assetID = (IF ref.kind = <<>> THEN <<"black">>
                                         ELSE ref.kind)
                    [] OTHER ->
                         /\ e.typeName = <<"GESUriClip">>
                         /\ e.assetID = <<"file:///missing">>

\* a clip without reference and a generator clip without kind were encoded
C13_Witness ==
    /\ pc = "encoded"
    /\ Len(timeline.tracks[1].children) = 2
    /\ timeline.tracks[1].children[1].ref.variant = "nil"
    /\ timeline.tracks[1].children[2].ref.variant = "GeneratorReference"
    /\ timeline.tracks[1].children[2].ref.kind = <<>>
    /\ DocLayers(buf)[1].clips[1].assetID = <<"file:///missing">>
    /\ DocLayers(buf)[1].clips[2].typeName = <<"GESTestClip">>
    /\ DocLayers(buf)[1].clips[2].assetID = <<"black">>

-----------------------------------------------------------------------------
(* children-properties.                                                    *)

(* C15: a children-properties string on a clip element of type GESUriClip, *)
(* GESTestClip, GESTitleClip or GESTransitionClip is stored unchanged in   *)
(* the decoded item's metadata under xges / children-properties, and       *)
(* Encode of the decoded item emits the identical string (for a title clip *)
(* the stored string, not one rebuilt from the text).                      *)
C15_ChildrenPropertiesKept ==
    /\ (pc \in {"decoded", "reencoded"}) =>
          /\ Len(decoded.tracks[1].children) = Len(docDesc.clips)
          /\ \A i \in 1..Len(docDesc.clips) :
                docDesc.clips[i].childrenProperties # <<>> =>
                    LET md == decoded.tracks[1].children[i].metadata
                    IN  /\ "children-properties" \in DOMAIN md
                        /\ md["children-properties"]
                              = docDesc.clips[i].childrenProperties
    /\ (pc = "reencoded") =>
          /\ Len(DocLayers(buf2)[1].clips) = Len(docDesc.clips)
          /\ \A i \in 1..Len(docDesc.clips) :
                docDesc.clips[i].childrenProperties # <<>> =>
                    DocLayers(buf2)[1].clips[i].childrenProperties
                        = docDesc.clips[i].childrenProperties

\* a title clip with a bare text and a transition with a string were
\* decoded and encoded again; the title came back a title with its string
C15_Witness ==
    /\ pc = "reencoded"
    /\ Len(docDesc.clips) = 2
    /\ docDesc.clips[1].typeName = ClipTypeTitle
    /\ docDesc.clips[1].childrenProperties
          = <<"properties", CM, SP, "text=(string)", "H", "i", SC>>
    /\ docDesc.clips[2].typeName = ClipTypeTransition
    /\ docDesc.clips[2].childrenProperties
          = <<"properties", CM, SP, "alpha=(double)1", SC>>
    /\ decoded.tracks[1].children[1].metadata["text"] = <<"H", "i", SC>>
    /\ DocLayers(buf2)[1].clips[1].typeName = ClipTypeTitle
    /\ DocLayers(buf2)[1].clips[1].childrenProperties
          = docDesc.clips[1].childrenProperties
    /\ DocLayers(buf2)[1].clips[2].childrenProperties
          = docDesc.clips[2].childrenProperties

-----------------------------------------------------------------------------
(* Outcomes of a call.                                                     *)

\* Decode returned a timeline and no error, or an error and no timeline; a
\* stream that does not parse gives the second
DecodeOutcome ==
    /\ (pc = "decoded") =>
          ret = [call |-> "Decode", value |-> "timeline", err |-> "nil"]
    /\ (pc = "decodeFailed") =>
          /\ ret = [call |-> "Decode", value |-> "nil", err |-> "parse"]
          /\ ~Parses(stream)
    /\ (ret.call = "Decode") =>
          (ret.value = "nil") = (ret.err # "nil")

\* s is a part of the document that is not the whole of it
PartOfDocument(s) ==
    /\ s # WholeStream
    /\ Len(s) <= Len(WriteChunks)
    /\ \A i \in 1..Len(s) :
          \/ s[i] = WriteChunks[i]
          \/ i = Len(s) /\ s[i] = "part of " \o WriteChunks[i]

(* C16: every Decode and every Encode call ends in a complete result with  *)
(* no error or in an error with no result: Decode never returns a timeline *)
(* together with an error, and Encode never leaves a partial document on   *)
(* the output stream when it returns an error, from an unreadable child    *)
(* duration or from a failed write.                                        *)
C16_NoPartialDocument ==
    /\ DecodeOutcome
    /\ (pc = "encoded") => (ret.err = "nil" /\ stream = WholeStream)
    /\ (pc = "encodeFailed") => (ret.err # "nil" /\ stream = <<>>)

(* C16, as the code has it: Decode never returns a timeline together with  *)
(* an error; Encode writes nothing when a child duration is unreadable,    *)
(* and when a write fails it returns the error and leaves on the stream    *)
(* the part of the document written before the failure.                    *)
C16_PartialOnlyAfterFailedWrite ==
    /\ DecodeOutcome
    /\ (pc = "encoded") => (ret.err = "nil" /\ stream = WholeStream)
    /\ (pc = "encodeFailed") =>
          /\ ret.err \in {"duration", "write"}
          /\ (ret.err = "duration") => (stream = <<>>)
          /\ (ret.err = "write") =>
                /\ PartOfDocument(stream)
                /\ (writer.failAt = 1 /\ ~writer.partial) = (stream = <<>>)

\* the second Write failed half way: Encode returned its error, and Decode
\* of what was left on the stream returned no timeline and a parse error
C16_Witness ==
    /\ pc = "decodeFailed"
    /\ writer = [failAt |-> 2, partial |-> TRUE]
    /\ ~DurationError(timeline)
    /\ stream = <<"xml.Header", "part of document">>
    /\ ret = [call |-> "Decode", value |-> "nil", err |-> "parse"]

-----------------------------------------------------------------------------
(* The rate Encode infers.                                                 *)

\* the children of a list of tracks, one track after the other
RECURSIVE ChildrenOf(_)
ChildrenOf(tracks) ==
    IF tracks = <<>> THEN <<>>
    ELSE Head(tracks).children \o ChildrenOf(Tail(tracks))

\* the first track of a list, as a list
FirstTrack(tracks) == IF tracks = <<>> THEN <<>> ELSE <<Head(tracks)>>

\* a Clip whose duration is readable and has a positive rate
IsRated(child) ==
    /\ child.type = "Clip"
    /\ HasRange(child)
    /\ child.sourceRange.duration.rate.num > 0

\* rate is the rate of the first rated clip of the scan, or 25 without one
FirstRatedOr25(scan, rate) ==
    IF \E i \in 1..Len(scan) : IsRated(scan[i])
    THEN \E i \in 1..Len(scan) :
            /\ IsRated(scan[i])
            /\ \A j \in 1..(i - 1) : ~IsRated(scan[j])
            /\ rate = scan[i].sourceRange.duration.rate
    ELSE rate = [num |-> 25, den |-> 1]

(* C17: Encode infers the timeline rate by scanning the first video        *)
(* track's children in order, then the first audio track's children, and   *)
(* takes the rate of the first Clip whose duration has a positive rate;    *)
(* Gaps and Transitions are skipped; without such a clip the rate is 25.   *)
C17_RateOfFirstTracks ==
    (pc # "start") =>
        FirstRatedOr25(ChildrenOf(FirstTrack(VideoTracks(timeline)))
                       \o ChildrenOf(FirstTrack(AudioTracks(timeline))),
                       encoder.rate)

(* C17, as the code has it: the scan goes over the children of every video *)
(* track in timeline order, then over those of every audio track.          *)
C17_RateOfAllTracks ==
    (pc # "start") =>
        FirstRatedOr25(ChildrenOf(VideoTracks(timeline))
                       \o ChildrenOf(AudioTracks(timeline)),
                       encoder.rate)

\* the first video track holds a gap only, the second a clip at 30: Encode
\* took 30
C17_Witness ==
    /\ pc = "encoded"
    /\ Len(VideoTracks(timeline)) = 2
    /\ Len(VideoTracks(timeline)[1].children) = 1
    /\ VideoTracks(timeline)[1].children[1].type = "Gap"
    /\ Len(VideoTracks(timeline)[2].children) = 1
    /\ IsRated(VideoTracks(timeline)[2].children[1])
    /\ encoder.rate = [num |-> 30, den |-> 1]

-----------------------------------------------------------------------------
(* The layers Encode writes.                                               *)

\* Encode of the original timeline has written its document
Written == pc \in {"encoded", "decoded", "reencoded"}

\* the children of a track that are not Gaps
NonGaps(children) == SelectSeq(children, LAMBDA c : c.type # "Gap")

\* clip element e is the element of child c
ElementOf(e, c) ==
    /\ (e.typeName = ClipTypeTransition) = (c.type = "Transition")
    /\ e.properties = buildClipProperties(c.name)
    /\ e.duration = ChildNs(c)

(* C18: in every layer Encode produces, the start of each emitted clip     *)
(* element is the sum of the nanosecond durations of the children before   *)
(* it in the source track (Gap duration, Clip duration, Transition         *)
(* in-offset + out-offset), from 0; each Clip and each Transition emits    *)
(* one element, in child order, and a Gap emits none.                      *)
C18_StartIsSumOfPreceding ==
    Written =>
        \A kind \in Kinds :
            \A i \in 1..Len(TracksOfKind(timeline, kind)) :
                LET children == TracksOfKind(timeline, kind)[i].children
                    clips    == LayerOf(buf, timeline, kind, i).clips
                IN  /\ Len(clips) = NonGapCount(children)
                    /\ \A p \in 1..Len(children) :
                          children[p].type # "Gap" =>
                              LET k == NonGapCount(SubSeq(children, 1, p))
                              IN  /\ ElementOf(clips[k], children[p])
                                  /\ clips[k].start = SpanNs(children, 1, p - 1)

\* a track of a gap of 1 frame, a transition of 1 + 2 frames and a clip, at
\* 24 frames per second: two elements, the clip's at 4 frames less the
\* truncation of the gap
C18_Witness ==
    /\ pc = "encoded"
    /\ Len(timeline.tracks) = 1
    /\ Len(timeline.tracks[1].children) = 3
    /\ timeline.tracks[1].children[1].type = "Gap"
    /\ timeline.tracks[1].children[2].type = "Transition"
    /\ timeline.tracks[1].children[3].type = "Clip"
    /\ Len(DocLayers(buf)[1].clips) = 2
    /\ DocLayers(buf)[1].clips[1].start = 41666666
    /\ DocLayers(buf)[1].clips[2].start = 41666666 + 125000000

\* layer l is the layer of track tr: the elements of its clips and
\* transitions, with the layer's priority and the kind's track-types
LayerOfTrack(layer, tr, priority, trackTypes) ==
    /\ layer.priority = priority
    /\ Len(layer.clips) = Len(NonGaps(tr.children))
    /\ \A k \in 1..Len(layer.clips) :
          /\ ElementOf(layer.clips[k], NonGaps(tr.children)[k])
          /\ layer.clips[k].layerPriority = priority
          /\ layer.clips[k].trackTypes = trackTypes

(* C19: Encode emits exactly one Layer per source track, all video tracks  *)
(* first, in timeline order, then all audio tracks, with layer priorities  *)
(* 0, 1, 2, ... in that order; every clip element of a layer carries the   *)
(* layer's priority as layer-priority and track-types 4 for a video track  *)
(* and 2 for an audio track, and no other track-types value is emitted.    *)
C19_OneLayerPerTrack ==
    Written =>
        LET v == TracksOfKind(timeline, "Video")
            a == TracksOfKind(timeline, "Audio")
            layers == DocLayers(buf)
        IN  /\ Len(layers) = Len(timeline.tracks)
            /\ Len(layers) = Len(v) + Len(a)
            /\ \A i \in 1..Len(v) :
                  LayerOfTrack(layers[i], v[i], i - 1, 4)
            /\ \A i \in 1..Len(a) :
                  LayerOfTrack(layers[Len(v) + i], a[i], Len(v) + i - 1, 2)
            /\ \A l \in 1..Len(layers) :
                  \A k \in 1..Len(layers[l].clips) :
                      layers[l].clips[k].trackTypes \in {4, 2}

\* an audio track with a clip comes before a video track with a clip in the
\* timeline: the video track's layer is written first, with priority 0
C19_Witness ==
    /\ pc = "encoded"
    /\ Len(timeline.tracks) = 2
    /\ timeline.tracks[1].kind = "Audio"
    /\ timeline.tracks[2].kind = "Video"
    /\ Len(timeline.tracks[1].children) = 1
    /\ Len(timeline.tracks[2].children) = 1
    /\ timeline.tracks[1].children[1].name = <<"a">>
    /\ timeline.tracks[2].children[1].name = <<"c">>
    /\ DocLayers(buf)[1].priority = 0
    /\ DocLayers(buf)[1].clips[1].properties = buildClipProperties(<<"c">>)
    /\ DocLayers(buf)[1].clips[1].trackTypes = 4
    /\ DocLayers(buf)[2].priority = 1
    /\ DocLayers(buf)[2].clips[1].layerPriority = 1
    /\ DocLayers(buf)[2].clips[1].trackTypes = 2

-----------------------------------------------------------------------------
(* Layers collapse into one track per kind.                                *)

\* the clip elements of a layer that go to the track of type tt
OfTrackType(clips, tt) ==
    SelectSeq(clips, LAMBDA c : BitAnd(c.trackTypes, tt) # 0)

\* the children the layers before layer l give the track of type tt, each
\* layer walked from a cursor at 0
RECURSIVE ChildrenBefore(_, _, _)
ChildrenBefore(layers, l, tt) ==
    IF l = 1 THEN 0
    ELSE LET f == OfTrackType(layers[l - 1], tt)
         IN  ChildrenBefore(layers, l - 1, tt) + ChildIndex(f, Len(f))

\* children are what the layers give the track of type tt: layer after
\* layer, each element after a Gap when it starts after its layer's cursor
CollapsedInto(children, layers, tt) ==
    /\ Len(children) = ChildrenBefore(layers, Len(layers) + 1, tt)
    /\ \A l \in 1..Len(layers) :
          LET f    == OfTrackType(layers[l], tt)
              base == ChildrenBefore(layers, l, tt)
          IN  \A i \in 1..Len(f) :
                 LET k == base + ChildIndex(f, i)
                 IN  /\ ConvertedFrom(children[k], f[i])
                     /\ IF StartsLate(f, i)
                        THEN /\ children[k - 1].type = "Gap"
                             /\ toNanoseconds(children[k - 1].duration)
                                   = f[i].start - CursorAfter(f, i - 1)
                        ELSE k = base + 1 \/ children[k - 1].type # "Gap"

\* the kinds that have a Track element, video before audio
KindsWithTrackElement(tts) ==
    (IF TrackTypeVideo \in Range(tts) THEN <<"Video">> ELSE <<>>)
    \o (IF TrackTypeAudio \in Range(tts) THEN <<"Audio">> ELSE <<>>)

(* C20: Decode creates exactly one timeline track per kind (video, audio)  *)
(* for which a Track element exists, however many Track elements and       *)
(* layers of that kind the document has, and appends the clips of every    *)
(* contributing layer to that one track in layer document order, the video *)
(* track before the audio track; each layer is walked with its own cursor  *)
(* restarting at 0, so a later layer's elements come after the earlier     *)
(* layer's in the track rather than at their own start times.              *)
C20_OneTrackPerKind ==
    (pc \in {"decoded", "reencoded"}) =>
        LET kinds == KindsWithTrackElement(docDesc.trackTypes)
        IN  /\ Len(decoded.tracks) = Len(kinds)
            /\ \A t \in 1..Len(kinds) :
                  /\ decoded.tracks[t].kind = kinds[t]
                  /\ CollapsedInto(decoded.tracks[t].children, docDesc.layers,
                                   IF kinds[t] = "Video" THEN TrackTypeVideo
                                   ELSE TrackTypeAudio)

\* an audio Track element before a video one and two layers: the first
\* holds a video element at 0, the second an element of both kinds at
\* 0.05 s.  The video track holds the first element, a Gap of 0.05 s and the
\* second element; the audio track the Gap and the second element
C20_Witness ==
    /\ pc = "decoded"
    /\ docDesc.trackTypes = <<TrackTypeAudio, TrackTypeVideo>>
    /\ Len(docDesc.layers) = 2
    /\ Len(docDesc.layers[1]) = 1 /\ Len(docDesc.layers[2]) = 1
    /\ docDesc.layers[1][1].trackTypes = TrackTypeVideo
    /\ docDesc.layers[2][1].trackTypes = TrackTypeVideo + TrackTypeAudio
    /\ docDesc.layers[1][1].start = 0
    /\ docDesc.layers[2][1].start = GSTSecond \div 20
    /\ Len(decoded.tracks) = 2
    /\ decoded.tracks[1].kind = "Video"
    /\ Len(decoded.tracks[1].children) = 3
    /\ decoded.tracks[1].children[1].name = <<"e", "0">>
    /\ decoded.tracks[1].children[2].type = "Gap"
    /\ toNanoseconds(decoded.tracks[1].children[2].duration) = GSTSecond \div 20
    /\ decoded.tracks[1].children[3].name = <<"e", "1">>
    /\ decoded.tracks[2].kind = "Audio"
    /\ Len(decoded.tracks[2].children) = 2
    /\ decoded.tracks[2].children[1].type = "Gap"
    /\ decoded.tracks[2].children[2].name = <<"e", "1">>

-----------------------------------------------------------------------------
(* The two halves of a transition.                                         *)

(* C21: for every Transition clip element e, Decode sets the transition's  *)
(* in-offset and out-offset each to half of e.duration, at the decoder's   *)
(* rate, and Encode of a Transition emits duration = in-offset +           *)
(* out-offset, so encoding a decoded transition again yields an element    *)
(* whose duration is e.duration.                                           *)
C21_HalvesAddUp ==
    /\ (pc \in {"decoded", "reencoded"}) =>
          /\ Len(decoded.tracks[1].children) = Len(docDesc.clips)
          /\ \A i \in 1..Len(docDesc.clips) :
                LET t == decoded.tracks[1].children[i]
                    half == [sn |-> docDesc.clips[i].duration,
                             sd |-> 2 * GSTSecond, rate |-> decoder.rate]
                IN  /\ t.type = "Transition"
                    /\ t.inOffset = half
                    /\ t.outOffset = half
    /\ (pc = "reencoded") =>
          /\ Len(DocLayers(buf2)[1].clips) = Len(docDesc.clips)
          /\ \A i \in 1..Len(docDesc.clips) :
                LET t == decoded.tracks[1].children[i]
                    e == DocLayers(buf2)[1].clips[i]
                IN  /\ e.typeName = ClipTypeTransition
                    /\ e.duration = toNanoseconds(AddTime(t.inOffset, t.outOffset))
                    /\ e.duration = docDesc.clips[i].duration

-----------------------------------------------------------------------------
(* The text of a title clip.                                               *)

(* C22: for a title clip whose xges metadata has text = T and no raw       *)
(* children-properties, Encode emits children-properties equal to          *)
(* properties, text=(string)"<escaped T>"; and Decode of that element      *)
(* yields a clip whose xges metadata has text = T and clip-type = title,   *)
(* for every non-empty T over backslash, double quote, space, comma and    *)
(* alphanumerics.                                                          *)
C22_TitleTextRoundTrips ==
    /\ (pc \in {"encoded", "decoded", "reencoded"}) =>
          /\ DocLayers(buf)[1].clips[1].typeName = ClipTypeTitle
          /\ DocLayers(buf)[1].clips[1].childrenProperties
                = <<"properties", CM, SP, "text=(string)", DQ>>
                  \o CharWiseEscape(timeline.tracks[1].children[1].metadata["text"])
                  \o <<DQ, SC>>
    /\ (pc \in {"decoded", "reencoded"}) =>
          LET md == decoded.tracks[1].children[1].metadata
          IN  /\ "clip-type" \in DOMAIN md /\ md["clip-type"] = <<"title">>
              /\ "text" \in DOMAIN md
              /\ md["text"] = timeline.tracks[1].children[1].metadata["text"]

-----------------------------------------------------------------------------
(* String fields of a structure string.                                    *)

\* the first double quote of s at or after i that no backslash escapes, or
\* Len(s) + 1
RECURSIVE UnescapedQuote(_, _)
UnescapedQuote(s, i) ==
    IF i > Len(s) THEN Len(s) + 1
    ELSE IF s[i] = DQ THEN i
    ELSE IF s[i] = BS THEN UnescapedQuote(s, i + 2)
    ELSE UnescapedQuote(s, i + 1)

\* the text after key=(string) is a quoted string with its closing quote,
\* or a bare token
WellFormed(v) ==
    (v # <<>> /\ v[1] = DQ) => UnescapedQuote(v, 2) <= Len(v)

\* the value of the text v after key=(string): what is between the quotes
\* up to the first unescaped one, or the bare token up to the first
\* whitespace, comma or semicolon
ValueOf(v) ==
    IF v # <<>> /\ v[1] = DQ
    THEN SubSeq(v, 2, UnescapedQuote(v, 2) - 1)
    ELSE SubSeq(v, 1, ScanTo(v, 1, {SP, CM, SC}) - 1)

(* C23: when the decoder extracts a string field (name, text) from a       *)
(* structure string it finds key=(string) and takes as the value a         *)
(* double-quoted string that ends at the first unescaped double quote (an  *)
(* escaped one inside the quotes is part of the value) or a bare token     *)
(* that ends at the first whitespace, comma or semicolon (the terminator   *)
(* is not part of the value); a missing key yields the empty / not-found   *)
(* result and is not an error.                                             *)
C23_FieldValue ==
    (pc \in {"decoded", "reencoded"}) =>
        LET clip == decoded.tracks[1].children[1]
            want == IF docDesc.keyed
                    THEN unescapeGstString(ValueOf(docDesc.value)) ELSE <<>>
        IN  /\ ret.err = "nil" \/ pc = "reencoded"
            /\ clip.type = "Clip"
            /\ WellFormed(docDesc.value) =>
                  /\ clip.name = want
                  /\ IF "text" \in DOMAIN clip.metadata
                     THEN clip.metadata["text"] = want
                     ELSE want = <<>>

-----------------------------------------------------------------------------
(* The order of map walks.                                                 *)

(* C24: Decode is deterministic: the decoded timeline (the children of the *)
(* video track and of the audio track) is the same for every order in      *)
(* which the per-kind clip groups of a layer and the kinds of the Track    *)
(* elements are walked, also for documents of several Track elements, for  *)
(* clips whose track-types meet both audio and video and for clips whose   *)
(* track-types meet no Track element's kind.                               *)
C24_DecodeDeterministic ==
    pc = "decoded" =>
        \A grouping, walk \in Orders(TrackTypesOf(buf)) :
           DecodeInOrder(buf, DefaultRate, grouping, walk).timeline = decoded

\* Track elements for audio, text and video, so six orders of the walk; a
\* clip of both kinds in the first layer and an audio clip in the second
C24_Witness ==
    /\ pc = "decoded"
    /\ Cardinality(TrackTypesOf(buf)) >= 2
    /\ TrackTypeAudio \in TrackTypesOf(buf) /\ TrackTypeVideo \in TrackTypesOf(buf)
    /\ Len(docDesc.layers) = 2
    /\ Len(docDesc.layers[1]) = 1 /\ Len(docDesc.layers[2]) = 1
    /\ docDesc.layers[1][1].trackTypes = TrackTypeVideo + TrackTypeAudio
    /\ docDesc.layers[2][1].trackTypes = TrackTypeAudio
    /\ Len(decoded.tracks) = 2
    /\ Len(decoded.tracks[1].children) = 1
    /\ Len(decoded.tracks[2].children) = 3

-----------------------------------------------------------------------------
(* The elements of a layer do not overlap.                                 *)

(* C25: within every layer Encode emits, the elements are in               *)
(* non-decreasing start order and never overlap: start[i+1] >= start[i] +  *)
(* duration[i], for every source track of Clips, Gaps and Transitions.     *)
C25_NoOverlap ==
    Written =>
        \A l \in 1..Len(DocLayers(buf)) :
            LET clips == DocLayers(buf)[l].clips
            IN  \A k \in 1..(Len(clips) - 1) :
                   /\ clips[k + 1].start >= clips[k].start
                   /\ clips[k + 1].start >= clips[k].start + clips[k].duration

\* a track of a transition of 1 + 2 frames at 24 and a clip right after it:
\* the clip's element starts at the end of the transition's
C25_Witness ==
    /\ pc = "encoded"
    /\ Len(timeline.tracks) = 1
    /\ Len(timeline.tracks[1].children) = 2
    /\ timeline.tracks[1].children[1].type = "Transition"
    /\ timeline.tracks[1].children[2].type = "Clip"
    /\ Len(DocLayers(buf)[1].clips) = 2
    /\ DocLayers(buf)[1].clips[1].start = 0
    /\ DocLayers(buf)[1].clips[1].duration = 125000000
    /\ DocLayers(buf)[1].clips[2].start = 125000000

-----------------------------------------------------------------------------
(* An Encoder that encodes more than once.                                 *)

(* C26: the rate an Encode call uses depends only on the timeline passed   *)
(* to that call: after any sequence of Encode calls on one Encoder,        *)
(* encoding a timeline that has no clip with a positive rate uses, and     *)
(* writes into the framerate fields, the default 25, not a rate left over  *)
(* from an earlier call.                                                   *)
C26_RateOfThisTimeline ==
    (pc = "encoded"
       /\ \A i \in 1..Len(ChildrenOf(timeline.tracks)) :
             ~IsRated(ChildrenOf(timeline.tracks)[i])) =>
        /\ encoder.rate = DefaultRate
        /\ buf.project.timeline.metadatas = buildTimelineMetadatas(DefaultRate)
        /\ \A t \in 1..Len(buf.project.timeline.tracks) :
              buf.project.timeline.tracks[t].trackType = TrackTypeVideo =>
                  buf.project.timeline.tracks[t].properties
                      = buildVideoTrackProperties(DefaultRate)

-----------------------------------------------------------------------------
(* The type-name of an element after decode and encode.                    *)

\* the elements Encode wrote for the decoded timeline of the one layer
ReEncodedClips == IF DocLayers(buf2) = <<>> THEN <<>> ELSE DocLayers(buf2)[1].clips

(* C27 (as stated): the clip type survives decode then encode: for every   *)
(* clip element e whose type-name is GESUriClip, GESTestClip, GESTitleClip *)
(* or GESTransitionClip and for every asset-id, the element that Encode    *)
(* emits for Decode's result of e has the same type-name as e.             *)
C27_TypeNameSurvives ==
    pc = "reencoded" =>
        /\ Len(ReEncodedClips) = Len(docDesc.clips)
        /\ \A k \in 1..Len(docDesc.clips) :
              ReEncodedClips[k].typeName = docDesc.clips[k].typeName

(* C27 (amended): as stated, except that a GESTestClip element whose       *)
(* asset-id is "title" is emitted as a GESTitleClip.                       *)
C27_TypeNameSurvivesButTestTitle ==
    pc = "reencoded" =>
        /\ Len(ReEncodedClips) = Len(docDesc.clips)
        /\ \A k \in 1..Len(docDesc.clips) :
              LET e == docDesc.clips[k]
              IN  ReEncodedClips[k].typeName =
                      IF e.typeName = ClipTypeTest /\ e.assetID = <<"title">>
                      THEN ClipTypeTitle ELSE e.typeName

\* a title element whose asset-id is a generator kind and a test element
\* whose asset-id is "title": both come back as title elements
C27_Witness ==
    /\ pc = "reencoded"
    /\ Len(docDesc.clips) = 2
    /\ docDesc.clips[1].typeName = ClipTypeTitle
    /\ docDesc.clips[1].assetID = <<"bars">>
    /\ docDesc.clips[2].typeName = ClipTypeTest
    /\ docDesc.clips[2].assetID = <<"title">>
    /\ ReEncodedClips[1].typeName = ClipTypeTitle
    /\ ReEncodedClips[2].typeName = ClipTypeTitle

-----------------------------------------------------------------------------
(* The starts of the elements after decode and encode.                     *)

\* the number of elements of known type-names among the first k
RECURSIVE KnownUpTo(_, _)
KnownUpTo(clips, k) ==
    IF k = 0 THEN 0
    ELSE KnownUpTo(clips, k - 1)
         + (IF clips[k].typeName \in ClipTypes THEN 1 ELSE 0)

\* no element starts before the end of the one before it
NoOverlap(clips) ==
    \A k \in 1..(Len(clips) - 1) :
        clips[k + 1].start >= clips[k].start + clips[k].duration

\* nanoseconds after the conversion to a time value and back
RoundTripNs(ns) == toNanoseconds(toRationalTime(ns, decoder.rate))

\* the start of element k less what the gaps and the elements before it
\* lose in the conversion
RECURSIVE StartLessLost(_, _)
StartLessLost(clips, k) ==
    IF k = 1 THEN RoundTripNs(clips[1].start)
    ELSE StartLessLost(clips, k - 1)
         + ChildNs(DecoderConvertClip(clips[k - 1], decoder.rate))
         + RoundTripNs(clips[k].start
                       - (clips[k - 1].start + clips[k - 1].duration))

====
